---- MODULE Spec2Model ----
(***************************************************************************)
(* Model of the tool-execution loop of AgentOrchestrator                   *)
(* (src/src/core/orchestrator.ts), the event bus it publishes on           *)
(* (src/src/core/event-emitter.ts), the Session Registry                   *)
(* (conversationHistory) and the Metrics Store the analytics listeners     *)
(* write (src/src/core/analytics.ts).                                      *)
(*                                                                         *)
(* Spec follows one executeAgentWithTools invocation.  The reasoning       *)
(* service and the tools are the environment: the service answers with     *)
(* text, with tool requests, or fails; a tool returns or throws.  The tool *)
(* callbacks of one turn are the fan-out of Promise.all and interleave     *)
(* freely.  RetrySpec lets the caller invoke again, ConcurrentSpec         *)
(* interleaves two invocations, BusSpec is an EventEmitter with handlers   *)
(* of any kind.                                                            *)
(*                                                                         *)
(* The Metrics Store has its own specifications.  AnalyticsSpec is the     *)
(* loop of one session id under a clock that advances, FaultySpec the loop *)
(* with a database that may refuse statements.  StoreSpec and TopToolsSpec *)
(* write the store by direct recordToolExecution calls, QuerySpec runs the *)
(* multi-statement queries between the steps of loops, RecordsSpec puts    *)
(* every operation on the store next to clearConversation, and             *)
(* RegistrySpec is processRequest and clearConversation on two sessions.   *)
(* LongSessionSpec is processRequest on a session that holds maxHistory    *)
(* messages, ReturnSpec the loop with tools that may return no value, and  *)
(* OnceSpec an EventEmitter with once and handlers that call emit.         *)
(*                                                                         *)
(* WebSpec is WebResearchAgent.execute with its rate limiter               *)
(* (src/unnamed/part_002) under a clock that advances by half seconds, and *)
(* PlannerSpec the execute_plan calls of TaskPlanningAgent                 *)
(* (src/src/agents/taskAgent.ts), which overlap while a step is delegated. *)
(***************************************************************************)
EXTENDS Integers, Sequences, FiniteSets, TLC

VARIABLES
    pc,                  \* position of the invocation in executeAgentWithTools
    agentKey,            \* argument agentKey
    sessionId,           \* argument sessionId
    messages,            \* context.messages, the loop's conversation
    toolsUsed,           \* toolsUsed
    finalResult,         \* finalResult
    toolUses,            \* toolUseBlocks of the turn being executed
    toolPc,              \* position of each callback of the Promise.all map
    toolResults,         \* value each callback of the map returned
    events,              \* events handed to EventEmitter.emit, in emit order
    calls,               \* tool.execute calls: tool_use id -> how the call ended
    serviceCalls,        \* claudeClient.messages.create calls: how each ended
    result,              \* value returned by executeAgentWithTools
    conversationHistory, \* the Session Registry map
    requests,            \* processRequest calls: position of each
    metrics,             \* the Metrics Store: the tables of AnalyticsEngine.db
    parked,              \* locals of the invocation that is not running now
    handlers,            \* EventEmitter.handlers: event name -> handlers
    wildCardHandlers,    \* EventEmitter.wildCardHandlers
    emits,               \* EventEmitter.emit calls: snapshot and progress
    now,                 \* the clock: what Date.now() returns
    query,               \* the metrics query called last: what it has read
    web,                 \* WebResearchAgent: rateLimiter and what execute returned
    planner              \* TaskPlanningAgent: executionPlans, and the execute_plan calls

vars == <<pc, agentKey, sessionId, messages, toolsUsed, finalResult, toolUses,
          toolPc, toolResults, events, calls, serviceCalls, result,
          conversationHistory, requests, metrics, parked, handlers,
          wildCardHandlers, emits, now, query, web, planner>>

\* the state of an EventEmitter of its own
busVars == <<handlers, wildCardHandlers, emits>>

\* what no step of a single invocation touches
outside == <<parked, busVars, now, query, web, planner>>

loopVars == <<pc, agentKey, sessionId, messages, toolsUsed, finalResult,
              toolUses, toolPc, toolResults, events, calls, serviceCalls,
              result>>

-----------------------------------------------------------------------------
(* Bounds of the model *)

MaxTools == 2        \* tool requests in one assistant turn
MaxTurns == 1        \* tool turns the service asks for in a fresh invocation
PrefixTurns == 23    \* trivial tool turns already done in the late start
ForcedTurns == 55    \* turns a runaway service keeps requesting a tool
MaxRequests == 1     \* processRequest calls in one behaviour
MaxEvents == 4       \* events published before the caller invokes once more
MaxHandlers == 2     \* registrations an EventEmitter holds at a time
MaxTicks == 2        \* milliseconds the clock advances in one behaviour
MaxRows == 3         \* tool-execution records written by direct calls
MaxKept == 3         \* messages an entry holds when processRequest is called again
MaxPauses == 4       \* half seconds the clock advances in one behaviour
MaxWebCalls == 3     \* WebResearchAgent.execute calls in one behaviour
MaxEmits == 3        \* emit calls in one behaviour of the once specification
MaxPlanCalls == 3    \* execute_plan calls in one behaviour

(* Program constants *)

MaxMessages == 50
DefaultMaxHistory == 20

-----------------------------------------------------------------------------
(* Agents and catalogs *)

Agents == {"file", "web", "code", "task", "data"}

\* WebResearchAgent defines no getAnthropicTools method
AgentsWithAnthropicTools == {"file", "code", "task", "data"}

AgentKeys == {"file", "web", "ghost"}

SessionIds == {"s1", "s2"}

Input == "list the files"

\* names of agent.tools, as far as the model uses them
Catalog(a) == IF a = "file" THEN {"list_files"} ELSE {}

ToolNames == {"list_files", "unknown_tool"}

-----------------------------------------------------------------------------
(* Content blocks and messages *)

TextBlock(t) == [type |-> "text", text |-> t]

ToolUseBlock(id, name) == [type |-> "tool_use", id |-> id, name |-> name]

ToolResultBlock(id, content, isError) ==
    [type |-> "tool_result", tool_use_id |-> id, content |-> content,
     is_error |-> isError]

Message(role, content) == [role |-> role, content |-> content]

NoResult == [type |-> "none"]

Null == [kind |-> "null"]

TextValue(t) == [kind |-> "text", text |-> t]

RECURSIVE SelectBlocks(_, _)
SelectBlocks(content, type) ==
    IF content = <<>> THEN <<>>
    ELSE IF Head(content).type = type
         THEN <<Head(content)>> \o SelectBlocks(Tail(content), type)
         ELSE SelectBlocks(Tail(content), type)

\* textResponse = text: only the last text block is kept
RECURSIVE LastTextOf(_)
LastTextOf(content) ==
    IF content = <<>> THEN <<>>
    ELSE IF LastTextOf(Tail(content)) # <<>> THEN LastTextOf(Tail(content))
         ELSE IF Head(content).type = "text" THEN <<Head(content).text>>
              ELSE <<>>

\* textResponse += text, over the text blocks of a response
RECURSIVE TextOf(_)
TextOf(content) ==
    IF content = <<>> THEN <<>>
    ELSE IF Head(content).type = "text"
         THEN <<Head(content).text>> \o TextOf(Tail(content))
         ELSE TextOf(Tail(content))

\* the answers of the reasoning service on turn t
ToolTurnContents(t) ==
    { <<TextBlock("commentary")>> \o
        [i \in 1..n |-> ToolUseBlock(<<t, i>>, names[i])] :
      n \in 1..MaxTools, names \in [1..MaxTools -> ToolNames] }

TextContents == { <<TextBlock("answer")>>, <<TextBlock("an"), TextBlock("swer")>> }

TrivialContent(t) ==
    <<TextBlock("commentary"), ToolUseBlock(<<t, 1>>, "list_files")>>

-----------------------------------------------------------------------------
(* Events handed to EventEmitter.emit.  toolUseId is not a field of the    *)
(* program's ToolEvent: it records which request the event was published   *)
(* for, so that properties can speak of "the event of that request".       *)

SessionStartEvent(s, a) ==
    [type |-> "session_start", sessionId |-> s, agentKey |-> a,
     timestamp |-> now]

\* a session_end whose counts were never filled in
SessionEndEventUncounted(s, a, used, final) ==
    [type |-> "session_end", sessionId |-> s, agentKey |-> a,
     timestamp |-> now,
     data |-> [totalTools |-> 0, successCount |-> 0, errorCount |-> 0,
               finalResult |-> final]]

SessionEndEvent(s, a, used, final) ==
    [type |-> "session_end", sessionId |-> s, agentKey |-> a,
     timestamp |-> now,
     data |-> [totalTools |-> Len(used), successCount |-> Len(used),
               errorCount |-> 0, finalResult |-> final]]

ToolStartEvent(s, a, use) ==
    [type |-> "tool_start", sessionId |-> s, agentKey |-> a,
     toolName |-> use.name, toolUseId |-> use.id, timestamp |-> now]

\* toolEndTime is the clock when the event is made; start is toolStartTime
ToolCompleteEvent(s, a, use, start) ==
    [type |-> "tool_complete", sessionId |-> s, agentKey |-> a,
     toolName |-> use.name, toolUseId |-> use.id, timestamp |-> now,
     duration |-> now - start]

ToolErrorEvent(s, a, use, start, msg) ==
    [type |-> "tool_error", sessionId |-> s, agentKey |-> a,
     toolName |-> use.name, toolUseId |-> use.id, timestamp |-> now,
     duration |-> now - start, error |-> msg]

\* line 473: toolStartTime of the callback of a request is the clock its
\* tool_start was published with, the last one in log for that request
toolStartTime(log, s, use) ==
    LET starts == {k \in DOMAIN log :
                      /\ log[k].type = "tool_start"
                      /\ log[k].sessionId = s
                      /\ log[k].toolUseId = use.id}
    IN IF starts = {} THEN now
       ELSE log[CHOOSE k \in starts : \A j \in starts : j <= k].timestamp

\* EventEmitter.emit: every handler is called synchronously, in emit order,
\* with the event; a failing handler is caught, so emit never rejects
emit(log, event) == Append(log, event)

-----------------------------------------------------------------------------
(* The Metrics Store and the Analytics Listener.  The statements of        *)
(* AnalyticsEngine are synchronous, so a record is written inside the emit *)
(* that hands its event to the listener.  A statement the database does    *)
(* not accept (it is locked by another process, the disk is full) throws;  *)
(* accepting says whether the database accepts statements, and last is     *)
(* what the latest stmt.run came to: the rows it changed (the changes of   *)
(* the info object run returns), or that it threw.                         *)

\* a NULL column, and an optional property that is undefined; one that is
\* set holds a one- or two-element tuple
SqlNull == <<>>

\* x ? ... : ... and x || null for an optional number
Truthy(x) == x # <<>> /\ x[1] # 0

NoMetrics ==
    [tool_executions |-> <<>>,
     agent_sessions |-> [s \in {} |-> [agent_key |-> "none"]],
     accepting |-> TRUE,
     last |-> [statement |-> "none", changes |-> 0, outcome |-> "done"]]

\* stmt.run: the statement takes effect on changes rows, or throws and
\* leaves the tables
run(m, statement, after, changes) ==
    IF m.accepting
    THEN [after EXCEPT !.last = [statement |-> statement,
                                 changes |-> changes, outcome |-> "done"]]
    ELSE [m EXCEPT !.last = [statement |-> statement, changes |-> 0,
                             outcome |-> "threw"]]

\* a recordToolExecution that stores the completion time as the duration
recordToolExecutionUnderived(m, event) ==
    run(m, "INSERT INTO tool_executions",
        [m EXCEPT !.tool_executions = Append(@,
            [session_id |-> event.sessionId,
             agent_key |-> event.agentKey,
             tool_name |-> event.toolName,
             started_at |-> event.startedAt,
             completed_at |-> IF Truthy(event.completedAt)
                              THEN event.completedAt ELSE SqlNull,
             duration_ms |-> event.completedAt,
             status |-> event.status,
             error_message |-> event.errorMessage])],
        1)

\* lines 78-101: INSERT INTO tool_executions
recordToolExecution(m, event) ==
    LET durationMs == IF Truthy(event.completedAt)
                      THEN <<event.completedAt[1] - event.startedAt>>
                      ELSE SqlNull
    IN run(m, "INSERT INTO tool_executions",
           [m EXCEPT !.tool_executions = Append(@,
               [session_id |-> event.sessionId,
                agent_key |-> event.agentKey,
                tool_name |-> event.toolName,
                started_at |-> event.startedAt,
                completed_at |-> IF Truthy(event.completedAt)
                                 THEN event.completedAt ELSE SqlNull,
                duration_ms |-> durationMs,
                status |-> event.status,
                error_message |-> event.errorMessage])],
           1)

\* an insert that stamps the completion along with the start
recordSessionStartCompleted(m, s, a) ==
    run(m, "INSERT INTO agent_sessions",
        IF s \in DOMAIN m.agent_sessions THEN m
        ELSE [m EXCEPT !.agent_sessions =
                [k \in DOMAIN @ \cup {s} |->
                    IF k = s
                    THEN [agent_key |-> a, started_at |-> now,
                          completed_at |-> <<now>>, total_tools |-> 0,
                          success_count |-> 0, error_count |-> 0,
                          final_result |-> SqlNull]
                    ELSE @[k]]],
        IF s \in DOMAIN m.agent_sessions THEN 0 ELSE 1)

\* an insert that replaces the record of a session id that has one
recordSessionStartReplacing(m, s, a) ==
    run(m, "INSERT INTO agent_sessions",
        [m EXCEPT !.agent_sessions =
            [k \in DOMAIN @ \cup {s} |->
                IF k = s
                THEN [agent_key |-> a, started_at |-> now,
                      completed_at |-> SqlNull, total_tools |-> 0,
                      success_count |-> 0, error_count |-> 0,
                      final_result |-> SqlNull]
                ELSE @[k]]],
        1)

\* lines 103-110: INSERT OR IGNORE INTO agent_sessions; session_id is the
\* primary key of the table
recordSessionStart(m, s, a) ==
    run(m, "INSERT INTO agent_sessions",
        IF s \in DOMAIN m.agent_sessions THEN m
        ELSE [m EXCEPT !.agent_sessions =
                [k \in DOMAIN @ \cup {s} |->
                    IF k = s
                    THEN [agent_key |-> a, started_at |-> now,
                          completed_at |-> SqlNull, total_tools |-> 0,
                          success_count |-> 0, error_count |-> 0,
                          final_result |-> SqlNull]
                    ELSE @[k]]],
        IF s \in DOMAIN m.agent_sessions THEN 0 ELSE 1)

\* an UPDATE that has lost its WHERE clause: every session record is set
recordSessionEndEverywhere(m, s, data) ==
    run(m, "UPDATE agent_sessions",
        [m EXCEPT !.agent_sessions =
            [k \in DOMAIN @ |->
                [@[k] EXCEPT !.completed_at = <<now>>,
                             !.total_tools = data.totalTools,
                             !.success_count = data.successCount,
                             !.error_count = data.errorCount,
                             !.final_result =
                                 IF data.finalResult = Null THEN SqlNull
                                 ELSE <<"json", data.finalResult>>]]],
        Cardinality(DOMAIN m.agent_sessions))

\* an update that throws when no record has the session id
recordSessionEndStrict(m, s, data) ==
    IF s \notin DOMAIN m.agent_sessions
    THEN [m EXCEPT !.last = [statement |-> "UPDATE agent_sessions",
                             changes |-> 0, outcome |-> "threw"]]
    ELSE run(m, "UPDATE agent_sessions",
             [m EXCEPT !.agent_sessions[s] =
                 [@ EXCEPT !.completed_at = <<now>>,
                           !.total_tools = data.totalTools,
                           !.success_count = data.successCount,
                           !.error_count = data.errorCount,
                           !.final_result =
                               IF data.finalResult = Null THEN SqlNull
                               ELSE <<"json", data.finalResult>>]],
             1)

\* an UPDATE that only completes a record that is still open
recordSessionEndOnce(m, s, data) ==
    LET open == /\ s \in DOMAIN m.agent_sessions
                /\ m.agent_sessions[s].completed_at = SqlNull
    IN run(m, "UPDATE agent_sessions",
           IF ~open THEN m
           ELSE [m EXCEPT !.agent_sessions[s] =
                   [@ EXCEPT !.completed_at = <<now>>,
                             !.total_tools = data.totalTools,
                             !.success_count = data.successCount,
                             !.error_count = data.errorCount,
                             !.final_result =
                                 IF data.finalResult = Null THEN SqlNull
                                 ELSE <<"json", data.finalResult>>]],
           IF open THEN 1 ELSE 0)

\* lines 112-127: UPDATE agent_sessions SET ... WHERE session_id = ?
recordSessionEnd(m, s, data) ==
    run(m, "UPDATE agent_sessions",
        IF s \notin DOMAIN m.agent_sessions THEN m
        ELSE [m EXCEPT !.agent_sessions[s] =
                [@ EXCEPT !.completed_at = <<now>>,
                          !.total_tools = data.totalTools,
                          !.success_count = data.successCount,
                          !.error_count = data.errorCount,
                          !.final_result =
                              IF data.finalResult = Null THEN SqlNull
                              ELSE <<"json", data.finalResult>>]],
        IF s \in DOMAIN m.agent_sessions THEN 1 ELSE 0)

\* listeners that record a failed tool the way they record a completed one
setupAnalyticsListenersAllSuccess(m, event) ==
    CASE event.type \in {"tool_complete", "tool_error"} ->
            recordToolExecution(m,
                [sessionId |-> event.sessionId, agentKey |-> event.agentKey,
                 toolName |-> event.toolName,
                 startedAt |-> event.timestamp - event.duration,
                 completedAt |-> <<event.timestamp>>,
                 status |-> "success", errorMessage |-> SqlNull])
      [] event.type = "session_start" ->
            recordSessionStart(m, event.sessionId, event.agentKey)
      [] event.type = "session_end" ->
            recordSessionEnd(m, event.sessionId, event.data)
      [] OTHER -> m

\* the handlers setupAnalyticsListeners registers, applied to one event; a
\* statement that throws is caught by emit
setupAnalyticsListeners(m, event) ==
    CASE event.type = "tool_complete" ->
            recordToolExecution(m,
                [sessionId |-> event.sessionId, agentKey |-> event.agentKey,
                 toolName |-> event.toolName,
                 startedAt |-> event.timestamp - event.duration,
                 completedAt |-> <<event.timestamp>>,
                 status |-> "success", errorMessage |-> SqlNull])
      [] event.type = "tool_error" ->
            recordToolExecution(m,
                [sessionId |-> event.sessionId, agentKey |-> event.agentKey,
                 toolName |-> event.toolName,
                 startedAt |-> event.timestamp - event.duration,
                 completedAt |-> <<event.timestamp>>,
                 status |-> "error", errorMessage |-> <<event.error>>])
      [] event.type = "session_start" ->
            recordSessionStart(m, event.sessionId, event.agentKey)
      [] event.type = "session_end" ->
            recordSessionEnd(m, event.sessionId, event.data)
      [] OTHER -> m

-----------------------------------------------------------------------------
(* Metrics queries (analytics.ts:129-270).  A call is the method's name    *)
(* with its arguments; a time range is <<>> when the caller gave none.  A  *)
(* number SQLite computes by division is kept as <<numerator,              *)
(* denominator>>.                                                          *)

\* the statements a method runs, in the order it runs them
Statements(call) ==
    CASE call[1] = "getToolMetrics" ->
            <<"total", "success", "avgDuration", "errors", "topTools">>
      [] call[1] = "getAgentMetrics" ->
            <<"sessions", "executions", "success", "avgDuration",
              "popularTools">>
      [] call[1] = "getErrorRate" -> <<"total", "errors">>
      [] call[1] = "getTopTools" -> <<"results">>
      [] OTHER -> <<>>

\* whereClause of the call, on a row of either table
Where(call, agent_key, started_at) ==
    LET InRange(timeRange) ==
            \/ timeRange = <<>>
            \/ /\ started_at >= timeRange[1].start
               /\ started_at <= timeRange[1].end
    IN CASE call[1] = "getAgentMetrics" ->
               agent_key = call[2] /\ InRange(call[3])
         [] call[1] \in {"getToolMetrics", "getErrorRate"} ->
               InRange(call[2])
         [] OTHER -> TRUE

\* AVG(duration_ms) over the rows picked: NULL when none has a duration
AVG(rows, picked) ==
    LET timed == {i \in picked : rows[i].duration_ms # SqlNull}
        RECURSIVE Sum(_)
        Sum(is) == IF is = {} THEN 0
                   ELSE LET i == CHOOSE j \in is : TRUE
                        IN rows[i].duration_ms[1] + Sum(is \ {i})
    IN IF timed = {} THEN SqlNull ELSE <<Sum(timed), Cardinality(timed)>>

\* GROUP BY tool_name with the aggregates the three statements select
GroupByToolName(rows, picked) ==
    { [tool_name |-> name,
       count |-> Cardinality({i \in picked : rows[i].tool_name = name}),
       successes |-> Cardinality({i \in picked :
                                    /\ rows[i].tool_name = name
                                    /\ rows[i].status = "success"}),
       avgDuration |-> AVG(rows, {i \in picked : rows[i].tool_name = name})] :
      name \in {rows[i].tool_name : i \in picked} }

\* the groups in any order
OrderByNothingLimit(groups, limit) ==
    LET n == Cardinality(groups)
        kept == IF limit < 0 \/ limit > n THEN n ELSE limit
    IN { SubSeq(order, 1, kept) :
           order \in { o \in [1..n -> groups] :
                         \A i, j \in 1..n : i # j => o[i] # o[j] } }

\* ORDER BY count DESC LIMIT limit: SQLite leaves the order of groups of
\* equal count open, and a negative limit is no limit
OrderByCountLimit(groups, limit) ==
    LET n == Cardinality(groups)
        kept == IF limit < 0 \/ limit > n THEN n ELSE limit
    IN { SubSeq(order, 1, kept) :
           order \in { o \in [1..n -> groups] :
                         /\ \A i, j \in 1..n : i # j => o[i] # o[j]
                         /\ \A i, j \in 1..n :
                               i < j => o[i].count >= o[j].count } }

\* what one statement of a call may read from the store
Answers(m, call, statement) ==
    LET rows == m.tool_executions
        picked == {i \in DOMAIN rows :
                      Where(call, rows[i].agent_key, rows[i].started_at)}
        Having(status) == {i \in picked : rows[i].status = status}
    IN CASE statement \in {"total", "executions"} -> {Cardinality(picked)}
         [] statement = "success" -> {Cardinality(Having("success"))}
         [] statement = "errors" -> {Cardinality(Having("error"))}
         [] statement = "avgDuration" -> {AVG(rows, picked)}
         [] statement = "sessions" ->
               {Cardinality({s \in DOMAIN m.agent_sessions :
                                Where(call, m.agent_sessions[s].agent_key,
                                      m.agent_sessions[s].started_at)})}
         [] statement = "topTools" ->
               OrderByCountLimit(GroupByToolName(rows, picked), 10)
         [] statement = "popularTools" ->
               OrderByCountLimit(GroupByToolName(rows, picked), 5)
         [] statement = "results" ->
               OrderByCountLimit(GroupByToolName(rows, picked), call[2])

\* a method that would give way to other callbacks after every statement
UntilAwaitEach(from, last) == from

\* the last statement a method runs before it gives way to other
\* callbacks: the methods await nothing, so it is the last one they have
UntilAwait(from, last) == last

\* what got may have become once the statements up to last have run on m
RECURSIVE RunStatements(_, _, _, _)
RunStatements(m, call, got, last) ==
    IF Len(got) >= last THEN {got}
    ELSE UNION { RunStatements(m, call, Append(got, v), last) :
                   v \in Answers(m, call, Statements(call)[Len(got) + 1]) }

\* the value a method returns once all its statements have run
Returned(call, got) ==
    LET Rate(part, whole) ==
            IF whole > 0 THEN <<part * 100, whole>> ELSE <<0, 1>>
        OrZero(avg) ==
            IF avg = SqlNull \/ avg[1] = 0 THEN <<0, 1>> ELSE avg
    IN CASE call[1] = "getToolMetrics" ->
               [totalExecutions |-> got[1],
                successRate |-> Rate(got[2], got[1]),
                averageDuration |-> OrZero(got[3]),
                errorCount |-> got[4],
                mostUsedTools |->
                    [i \in DOMAIN got[5] |->
                        [name |-> got[5][i].tool_name,
                         count |-> got[5][i].count,
                         avgDuration |-> OrZero(got[5][i].avgDuration)]]]
         [] call[1] = "getAgentMetrics" ->
               [agentKey |-> call[2],
                totalSessions |-> got[1],
                totalExecutions |-> got[2],
                averageToolsPerSession |->
                    IF got[1] > 0 THEN <<got[2], got[1]>> ELSE <<0, 1>>,
                successRate |-> Rate(got[3], got[2]),
                averageDuration |-> OrZero(got[4]),
                popularTools |->
                    [i \in DOMAIN got[5] |->
                        [name |-> got[5][i].tool_name,
                         count |-> got[5][i].count]]]
         [] call[1] = "getErrorRate" -> Rate(got[2], got[1])
         [] call[1] = "getTopTools" ->
               [i \in DOMAIN got[1] |->
                   [name |-> got[1][i].tool_name,
                    count |-> got[1][i].count,
                    successRate |->
                        Rate(got[1][i].successes, got[1][i].count)]]

-----------------------------------------------------------------------------
(* Results of the callbacks of the Promise.all map *)

\* the synthetic result without its error flag
NotFoundResultUnflagged(use) ==
    ToolResultBlock(use.id, <<"Error: Tool not found", use.name>>, FALSE)

NotFoundResult(use) ==
    ToolResultBlock(use.id, <<"Error: Tool not found", use.name>>, TRUE)

SuccessResult(use, value) ==
    ToolResultBlock(use.id, <<"json", value>>, FALSE)

\* the error result built without the id of the request it answers
ErrorResultWithoutId(use, msg) ==
    ToolResultBlock(<<0, 0>>, <<"Error", msg>>, TRUE)

ErrorResult(use, msg) ==
    ToolResultBlock(use.id, <<"Error", msg>>, TRUE)

\* agent.tools.find(t => t.name === toolUse.name)
FindTool(a, use) == use.name \in Catalog(a)

\* the requests of a turn that reach toolsUsed.push, in request order
RECURSIVE Dispatched(_, _)
Dispatched(a, uses) ==
    IF uses = <<>> THEN <<>>
    ELSE IF FindTool(a, Head(uses))
         THEN <<Head(uses)>> \o Dispatched(a, Tail(uses))
         ELSE Dispatched(a, Tail(uses))

\* a dispatch that publishes no tool_start
NoStartEvents(s, a, sent) == <<>>

\* lines 477-484 over the dispatched requests: the tool_start events, which
\* emit hands to the handlers before the next callback of the map starts
StartEvents(s, a, sent) ==
    [i \in 1..Len(sent) |-> ToolStartEvent(s, a, sent[i])]

\* a stop that comes one turn later
ExceedsBoundLate(msgs) == Len(msgs) > MaxMessages + 2

\* context.messages.length > 50
ExceedsBound(msgs) == Len(msgs) > MaxMessages

\* trimConversationHistory: messages.slice(-maxHistory) when longer
Trim(msgs, maxHistory) ==
    IF Len(msgs) > maxHistory
    THEN SubSeq(msgs, Len(msgs) - maxHistory + 1, Len(msgs))
    ELSE msgs

\* tool turns completed so far by the loop
Turns == (Len(messages) - 1) \div 2

-----------------------------------------------------------------------------
(* Return values of executeAgentWithTools *)

NoReturn == [kind |-> "none"]

NotFoundReturn(a) ==
    [kind |-> "returned", success |-> FALSE,
     error |-> <<"Agent not found", a>>, toolsUsed |-> <<>>]

\* a catch that returns the failure without the tools used so far
FailureReturnWithoutTools(msg, used) ==
    [kind |-> "returned", success |-> FALSE, error |-> msg, toolsUsed |-> <<>>]

FailureReturn(msg, used) ==
    [kind |-> "returned", success |-> FALSE, error |-> msg, toolsUsed |-> used]

SuccessReturn(final, used) ==
    [kind |-> "returned", success |-> TRUE, result |-> final,
     toolsUsed |-> used]

-----------------------------------------------------------------------------
(* The state a loop is in after k turns in each of which the service       *)
(* requested list_files once and the tool returned: what a runaway         *)
(* service produces.  RunawaySpec below reaches it step by step.           *)

RECURSIVE TrivialMessages(_)
TrivialMessages(k) ==
    IF k = 0 THEN <<Message("user", <<TextBlock(Input)>>)>>
    ELSE TrivialMessages(k - 1) \o
         <<Message("assistant", TrivialContent(k)),
           Message("user",
                   <<SuccessResult(TrivialContent(k)[2], "value")>>)>>

RECURSIVE TrivialEvents(_, _, _)
TrivialEvents(s, a, k) ==
    IF k = 0 THEN <<SessionStartEvent(s, a)>>
    ELSE TrivialEvents(s, a, k - 1) \o
         <<ToolStartEvent(s, a, TrivialContent(k)[2]),
           ToolCompleteEvent(s, a, TrivialContent(k)[2], now)>>

-----------------------------------------------------------------------------
(* Initial states: before the invocation, or late in a loop whose service  *)
(* has requested list_files on each of the first PrefixTurns turns.        *)

NoRequests == [i \in 1..MaxRequests |-> [pc |-> "new"]]

NoCalls == [id \in {} |-> "running"]

EmptyRegistry == [s \in {} |-> [messages |-> <<>>, maxHistory |-> 0]]

\* the Metrics Store after k such turns of session s
TrivialMetrics(s, a, k) ==
    [recordSessionStart(NoMetrics, s, a) EXCEPT
        !.tool_executions =
            [t \in 1..k |->
                [session_id |-> s, agent_key |-> a,
                 tool_name |-> "list_files", started_at |-> now,
                 completed_at |-> <<now>>, duration_ms |-> <<0>>,
                 status |-> "success", error_message |-> SqlNull]]]

\* the locals of an invocation that has not been made yet
IdleLocals ==
    [pc |-> "idle", agentKey |-> "none", sessionId |-> "none",
     messages |-> <<>>, toolsUsed |-> <<>>, finalResult |-> Null,
     toolUses |-> <<>>, toolPc |-> <<>>, toolResults |-> <<>>,
     calls |-> NoCalls, serviceCalls |-> <<>>, result |-> NoReturn]

\* new Map() of EventEmitter.handlers
NoHandlers == [e \in {} |-> <<>>]

InitFresh ==
    /\ now = 1
    /\ query = [call |-> <<"none">>, got |-> <<>>]
    /\ web = [rateLimiter |-> <<>>, responses |-> <<>>]
    /\ planner = [executionPlans |-> <<>>, calls |-> <<>>]
    /\ pc = "idle"
    /\ agentKey = "none"
    /\ sessionId = "none"
    /\ messages = <<>>
    /\ toolsUsed = <<>>
    /\ finalResult = Null
    /\ toolUses = <<>>
    /\ toolPc = <<>>
    /\ toolResults = <<>>
    /\ events = <<>>
    /\ calls = NoCalls
    /\ serviceCalls = <<>>
    /\ result = NoReturn
    /\ conversationHistory = EmptyRegistry
    /\ requests = NoRequests
    /\ metrics = NoMetrics
    /\ parked = IdleLocals
    /\ handlers = NoHandlers
    /\ wildCardHandlers = <<>>
    /\ emits = <<>>

InitLate ==
    /\ now = 1
    /\ query = [call |-> <<"none">>, got |-> <<>>]
    /\ web = [rateLimiter |-> <<>>, responses |-> <<>>]
    /\ planner = [executionPlans |-> <<>>, calls |-> <<>>]
    /\ pc = "awaitingModel"
    /\ agentKey = "file"
    /\ sessionId = "s1"
    /\ messages = TrivialMessages(PrefixTurns)
    /\ toolsUsed = [t \in 1..PrefixTurns |-> "list_files"]
    /\ finalResult = Null
    /\ toolUses = <<>>
    /\ toolPc = <<>>
    /\ toolResults = <<>>
    /\ events = TrivialEvents("s1", "file", PrefixTurns)
    /\ calls = [id \in {<<t, 1>> : t \in 1..PrefixTurns} |-> "returned"]
    /\ serviceCalls = [t \in 1..PrefixTurns |-> "ok"]
    /\ result = NoReturn
    /\ conversationHistory = EmptyRegistry
    /\ requests = NoRequests
    /\ metrics = TrivialMetrics("s1", "file", PrefixTurns)
    /\ parked = IdleLocals
    /\ handlers = NoHandlers
    /\ wildCardHandlers = <<>>
    /\ emits = <<>>

Init == InitFresh \/ InitLate

\* the orchestrator after ten processRequest calls of session s1, each
\* with its own input, have returned: the entry holds twenty messages
InitLongSession ==
    /\ now = 1
    /\ query = [call |-> <<"none">>, got |-> <<>>]
    /\ web = [rateLimiter |-> <<>>, responses |-> <<>>]
    /\ planner = [executionPlans |-> <<>>, calls |-> <<>>]
    /\ pc = "idle"
    /\ agentKey = "none"
    /\ sessionId = "none"
    /\ messages = <<>>
    /\ toolsUsed = <<>>
    /\ finalResult = Null
    /\ toolUses = <<>>
    /\ toolPc = <<>>
    /\ toolResults = <<>>
    /\ events = <<>>
    /\ calls = NoCalls
    /\ serviceCalls = <<>>
    /\ result = NoReturn
    /\ conversationHistory =
         [s \in {"s1"} |->
            [messages |->
                [i \in 1..DefaultMaxHistory |->
                    IF i % 2 = 1
                    THEN Message("user",
                                 <<TextBlock(<<"q1", "q2", "q3", "q4", "q5",
                                               "q6", "q7", "q8", "q9",
                                               "q10">>[(i + 1) \div 2])>>)
                    ELSE Message("assistant", <<TextBlock("reply")>>)],
             maxHistory |-> DefaultMaxHistory]]
    /\ requests = NoRequests
    /\ metrics = NoMetrics
    /\ parked = IdleLocals
    /\ handlers = NoHandlers
    /\ wildCardHandlers = <<>>
    /\ emits = <<>>

-----------------------------------------------------------------------------
(* executeAgentWithTools *)

\* a context taken from the Session Registry entry of the session id
RegistryContext(reg, s, input) ==
    (IF s \in DOMAIN reg THEN reg[s].messages ELSE <<>>)
        \o <<Message("user", <<TextBlock(input)>>)>>

\* lines 406-411: a context of its own, seeded with the caller message
FreshContext(reg, s, input) == <<Message("user", <<TextBlock(input)>>)>>

\* an entry that publishes session_start before it looks the agent up
InvokeStartsFirst(a, s) ==
    /\ pc = "idle"
    /\ agentKey' = a
    /\ sessionId' = s
    /\ events' = emit(events, SessionStartEvent(s, a))
    /\ metrics' = setupAnalyticsListeners(metrics, SessionStartEvent(s, a))
    /\ IF a \notin Agents
       THEN /\ pc' = "notFound"
            /\ result' = NotFoundReturn(a)
            /\ UNCHANGED messages
       ELSE IF a \notin AgentsWithAnthropicTools
       THEN /\ pc' = "rejected"
            /\ messages' = FreshContext(conversationHistory, s, Input)
            /\ UNCHANGED result
       ELSE /\ pc' = "awaitingModel"
            /\ messages' = FreshContext(conversationHistory, s, Input)
            /\ UNCHANGED result
    /\ UNCHANGED <<toolsUsed, finalResult, toolUses, toolPc, toolResults,
                   calls, serviceCalls, conversationHistory, requests>>
    /\ UNCHANGED outside

\* lines 392-426: agent lookup, fresh context, session_start
Invoke(a, s) ==
    /\ pc = "idle"
    /\ agentKey' = a
    /\ sessionId' = s
    /\ IF a \notin Agents
       THEN /\ pc' = "notFound"
            /\ result' = NotFoundReturn(a)
            /\ UNCHANGED <<messages, events, metrics>>
       ELSE IF a \notin AgentsWithAnthropicTools
       THEN \* agent.getAnthropicTools is not a function: the call throws
            /\ pc' = "rejected"
            /\ messages' = FreshContext(conversationHistory, s, Input)
            /\ UNCHANGED <<result, events, metrics>>
       ELSE /\ pc' = "awaitingModel"
            /\ messages' = FreshContext(conversationHistory, s, Input)
            /\ events' = emit(events, SessionStartEvent(s, a))
            /\ metrics' = setupAnalyticsListeners(metrics,
                                                  SessionStartEvent(s, a))
            /\ UNCHANGED result
    /\ UNCHANGED <<toolsUsed, finalResult, toolUses, toolPc, toolResults,
                   calls, serviceCalls, conversationHistory, requests>>
    /\ UNCHANGED outside

\* the service may ask for tools on this turn (bound of the model)
ToolTurnAllowed ==
    \/ Turns < MaxTurns
    \/ Turns >= PrefixTurns /\ Turns < PrefixTurns + MaxTurns + 1

\* a loop without the stop on the message count
AfterTurnUnbounded(msgs) == "awaitingModel"

\* lines 537-540, after the tool branch of the turn
AfterTurn(msgs) == IF ExceedsBound(msgs) THEN "finishing" ELSE "awaitingModel"

\* a catch that logs the service error and lets the loop go round again
ModelFailsAndRetries ==
    /\ pc = "awaitingModel"
    /\ serviceCalls' = Append(serviceCalls, "error")
    /\ Len(serviceCalls) < PrefixTurns + MaxTurns + 2
    /\ UNCHANGED <<pc, agentKey, sessionId, messages, toolsUsed, finalResult,
                   toolUses, toolPc, toolResults, events, calls, result,
                   conversationHistory, requests>>
    /\ UNCHANGED <<metrics, outside>>

\* lines 430, 542-549: messages.create throws, the catch returns
ModelFails ==
    /\ pc = "awaitingModel"
    /\ serviceCalls' = Append(serviceCalls, "error")
    /\ pc' = "failed"
    /\ result' = FailureReturn("service error", toolsUsed)
    /\ UNCHANGED <<agentKey, sessionId, messages, toolsUsed, finalResult,
                   toolUses, toolPc, toolResults, events, calls,
                   conversationHistory, requests>>
    /\ UNCHANGED <<metrics, outside>>

\* lines 430-453, 537-540: a response without tool_use blocks
ModelAnswersText(content) ==
    /\ pc = "awaitingModel"
    /\ SelectBlocks(content, "tool_use") = <<>>
    /\ serviceCalls' = Append(serviceCalls, "ok")
    /\ messages' = Append(messages, Message("assistant", content))
    /\ finalResult' = TextValue(TextOf(content))
    /\ pc' = "finishing"
    /\ UNCHANGED <<agentKey, sessionId, toolsUsed, toolUses, toolPc,
                   toolResults, events, calls, result, conversationHistory,
                   requests>>
    /\ UNCHANGED <<metrics, outside>>

\* lines 430-484: a response with tool_use blocks; the map runs each
\* callback up to its first await, in request order
ModelRequestsTools(content) ==
    /\ pc = "awaitingModel"
    /\ SelectBlocks(content, "tool_use") # <<>>
    /\ serviceCalls' = Append(serviceCalls, "ok")
    /\ messages' = Append(messages, Message("assistant", content))
    /\ LET uses == SelectBlocks(content, "tool_use")
           sent == Dispatched(agentKey, uses)
       IN /\ toolUses' = uses
          /\ toolsUsed' = toolsUsed \o [i \in 1..Len(sent) |-> sent[i].name]
          /\ events' = events \o StartEvents(sessionId, agentKey, sent)
          /\ toolPc' = [i \in 1..Len(uses) |->
                 IF FindTool(agentKey, uses[i]) THEN "emitStart" ELSE "done"]
          /\ toolResults' = [i \in 1..Len(uses) |->
                 IF FindTool(agentKey, uses[i]) THEN NoResult
                 ELSE NotFoundResult(uses[i])]
    /\ pc' = "executing"
    /\ UNCHANGED <<agentKey, sessionId, finalResult, calls, result,
                   conversationHistory, requests>>
    /\ UNCHANGED <<metrics, outside>>

\* a loop that awaits each tool before it runs the next one
ToolExecuteInTurn(i) ==
    /\ pc = "executing"
    /\ i \in DOMAIN toolPc
    /\ toolPc[i] = "emitStart"
    /\ \A j \in 1..(i - 1) : toolPc[j] = "done"
    /\ toolPc' = [toolPc EXCEPT ![i] = "executing"]
    /\ calls' = calls @@ (toolUses[i].id :> "running")
    /\ UNCHANGED <<pc, agentKey, sessionId, messages, toolsUsed, finalResult,
                   toolUses, toolResults, events, serviceCalls, result,
                   conversationHistory, requests>>
    /\ UNCHANGED <<metrics, outside>>

\* lines 477-487: the tool_start emit has settled, tool.execute is called
ToolExecute(i) ==
    /\ pc = "executing"
    /\ i \in DOMAIN toolPc
    /\ toolPc[i] = "emitStart"
    /\ toolPc' = [toolPc EXCEPT ![i] = "executing"]
    /\ calls' = calls @@ (toolUses[i].id :> "running")
    /\ UNCHANGED <<pc, agentKey, sessionId, messages, toolsUsed, finalResult,
                   toolUses, toolResults, events, serviceCalls, result,
                   conversationHistory, requests>>
    /\ UNCHANGED <<metrics, outside>>

\* lines 487-508: execute returned and the try block ran through:
\* tool_complete, success result
ToolReturns(i) ==
    /\ pc = "executing"
    /\ i \in DOMAIN toolPc
    /\ toolPc[i] = "executing"
    /\ events' = emit(events,
                      ToolCompleteEvent(sessionId, agentKey, toolUses[i],
                          toolStartTime(events, sessionId, toolUses[i])))
    /\ metrics' = setupAnalyticsListeners(metrics,
                      ToolCompleteEvent(sessionId, agentKey, toolUses[i],
                          toolStartTime(events, sessionId, toolUses[i])))
    /\ toolResults' = [toolResults EXCEPT
                          ![i] = SuccessResult(toolUses[i], "value")]
    /\ toolPc' = [toolPc EXCEPT ![i] = "done"]
    /\ calls' = [calls EXCEPT ![toolUses[i].id] = "returned"]
    /\ UNCHANGED <<pc, agentKey, sessionId, messages, toolsUsed, finalResult,
                   toolUses, serviceCalls, result, conversationHistory,
                   requests>>
    /\ UNCHANGED outside

\* a failure raised after tool_complete went out: both events are published
ToolThrowsAfterComplete(i) ==
    /\ pc = "executing"
    /\ i \in DOMAIN toolPc
    /\ toolPc[i] = "executing"
    /\ events' = emit(emit(events,
                           ToolCompleteEvent(sessionId, agentKey, toolUses[i],
                          toolStartTime(events, sessionId, toolUses[i]))),
                      ToolErrorEvent(sessionId, agentKey, toolUses[i],
                          toolStartTime(events, sessionId, toolUses[i]),
                          "tool failed"))
    /\ metrics' = setupAnalyticsListeners(
                      setupAnalyticsListeners(metrics,
                          ToolCompleteEvent(sessionId, agentKey, toolUses[i],
                          toolStartTime(events, sessionId, toolUses[i]))),
                      ToolErrorEvent(sessionId, agentKey, toolUses[i],
                          toolStartTime(events, sessionId, toolUses[i]),
                          "tool failed"))
    /\ toolResults' = [toolResults EXCEPT
                          ![i] = ErrorResult(toolUses[i], "tool failed")]
    /\ toolPc' = [toolPc EXCEPT ![i] = "done"]
    /\ calls' = [calls EXCEPT ![toolUses[i].id] = "raised"]
    /\ UNCHANGED <<pc, agentKey, sessionId, messages, toolsUsed, finalResult,
                   toolUses, serviceCalls, result, conversationHistory,
                   requests>>
    /\ UNCHANGED outside

\* a tool failure that is not caught per invocation: Promise.all rejects
\* and the catch of the loop returns the failure
ToolThrowsUncaught(i) ==
    /\ pc = "executing"
    /\ i \in DOMAIN toolPc
    /\ toolPc[i] = "executing"
    /\ calls' = [calls EXCEPT ![toolUses[i].id] = "raised"]
    /\ pc' = "failed"
    /\ result' = FailureReturn("tool failed", toolsUsed)
    /\ UNCHANGED <<agentKey, sessionId, messages, toolsUsed, finalResult,
                   toolUses, toolPc, toolResults, events, serviceCalls,
                   conversationHistory, requests>>
    /\ UNCHANGED <<metrics, outside>>

\* lines 487-529: execute (or a statement after it in the try block)
\* raised: tool_error, error result
ToolThrows(i) ==
    /\ pc = "executing"
    /\ i \in DOMAIN toolPc
    /\ toolPc[i] = "executing"
    /\ events' = emit(events,
                      ToolErrorEvent(sessionId, agentKey, toolUses[i],
                          toolStartTime(events, sessionId, toolUses[i]),
                          "tool failed"))
    /\ metrics' = setupAnalyticsListeners(metrics,
                      ToolErrorEvent(sessionId, agentKey, toolUses[i],
                          toolStartTime(events, sessionId, toolUses[i]),
                          "tool failed"))
    /\ toolResults' = [toolResults EXCEPT
                          ![i] = ErrorResult(toolUses[i], "tool failed")]
    /\ toolPc' = [toolPc EXCEPT ![i] = "done"]
    /\ calls' = [calls EXCEPT ![toolUses[i].id] = "raised"]
    /\ UNCHANGED <<pc, agentKey, sessionId, messages, toolsUsed, finalResult,
                   toolUses, serviceCalls, result, conversationHistory,
                   requests>>
    /\ UNCHANGED outside

\* lines 487-529: execute returned undefined. JSON.stringify(undefined) is
\* undefined, reading its length at line 500 raises a TypeError before
\* tool_complete is handed to emit, and the catch answers: tool_error, error
\* result
ToolReturnsNothing(i) ==
    /\ pc = "executing"
    /\ i \in DOMAIN toolPc
    /\ toolPc[i] = "executing"
    /\ events' = emit(events,
                      ToolErrorEvent(sessionId, agentKey, toolUses[i],
                          toolStartTime(events, sessionId, toolUses[i]),
                          "Cannot read properties of undefined"))
    /\ metrics' = setupAnalyticsListeners(metrics,
                      ToolErrorEvent(sessionId, agentKey, toolUses[i],
                          toolStartTime(events, sessionId, toolUses[i]),
                          "Cannot read properties of undefined"))
    /\ toolResults' = [toolResults EXCEPT
                          ![i] = ErrorResult(toolUses[i],
                                     "Cannot read properties of undefined")]
    /\ toolPc' = [toolPc EXCEPT ![i] = "done"]
    /\ calls' = [calls EXCEPT ![toolUses[i].id] = "returned"]
    /\ UNCHANGED <<pc, agentKey, sessionId, messages, toolsUsed, finalResult,
                   toolUses, serviceCalls, result, conversationHistory,
                   requests>>
    /\ UNCHANGED outside

\* lines 458, 533-540: Promise.all settles once every callback returned
CollectResults ==
    /\ pc = "executing"
    /\ \A i \in DOMAIN toolPc : toolPc[i] = "done"
    /\ messages' = Append(messages, Message("user", toolResults))
    /\ pc' = AfterTurn(messages')
    /\ toolUses' = <<>>
    /\ toolPc' = <<>>
    /\ toolResults' = <<>>
    /\ UNCHANGED <<agentKey, sessionId, toolsUsed, finalResult, events,
                   calls, serviceCalls, result, conversationHistory,
                   requests>>
    /\ UNCHANGED <<metrics, outside>>

\* a return that skips the session_end emit
FinishWithoutSessionEnd ==
    /\ pc = "finishing"
    /\ messages' = Trim(messages, DefaultMaxHistory)
    /\ result' = SuccessReturn(finalResult, toolsUsed)
    /\ pc' = "completed"
    /\ UNCHANGED <<agentKey, sessionId, toolsUsed, finalResult, toolUses,
                   toolPc, toolResults, events, calls, serviceCalls,
                   conversationHistory, requests>>
    /\ UNCHANGED <<metrics, outside>>

\* lines 552-574: trim the loop's context, session_end, success
Finish ==
    /\ pc = "finishing"
    /\ messages' = Trim(messages, DefaultMaxHistory)
    /\ events' = emit(events,
                      SessionEndEvent(sessionId, agentKey, toolsUsed,
                                      finalResult))
    /\ metrics' = setupAnalyticsListeners(metrics,
                      SessionEndEvent(sessionId, agentKey, toolsUsed,
                                      finalResult))
    /\ result' = SuccessReturn(finalResult, toolsUsed)
    /\ pc' = "completed"
    /\ UNCHANGED <<agentKey, sessionId, toolsUsed, finalResult, toolUses,
                   toolPc, toolResults, calls, serviceCalls,
                   conversationHistory, requests>>
    /\ UNCHANGED outside

\* lines 398-404, 544-548, 569-574: the invocation has settled and its
\* locals are gone; the caller is free to invoke again
NextInvocation ==
    /\ pc \in {"completed", "failed", "notFound", "rejected"}
    /\ Len(events) < MaxEvents
    /\ pc' = IdleLocals.pc
    /\ agentKey' = IdleLocals.agentKey
    /\ sessionId' = IdleLocals.sessionId
    /\ messages' = IdleLocals.messages
    /\ toolsUsed' = IdleLocals.toolsUsed
    /\ finalResult' = IdleLocals.finalResult
    /\ toolUses' = IdleLocals.toolUses
    /\ toolPc' = IdleLocals.toolPc
    /\ toolResults' = IdleLocals.toolResults
    /\ calls' = IdleLocals.calls
    /\ serviceCalls' = IdleLocals.serviceCalls
    /\ result' = IdleLocals.result
    /\ UNCHANGED <<events, conversationHistory, requests, metrics, outside>>

\* a millisecond passes
Tick ==
    /\ now < 1 + MaxTicks
    /\ now' = now + 1
    /\ UNCHANGED <<loopVars, conversationHistory, requests, metrics, parked,
                   busVars, query, web, planner>>

\* the database stops accepting statements (it is locked by another
\* connection, the disk is full): stmt.run throws from now on
StoreFails ==
    /\ metrics.accepting
    /\ metrics' = [metrics EXCEPT !.accepting = FALSE]
    /\ UNCHANGED <<loopVars, conversationHistory, requests, outside>>

\* the database accepts statements again
StoreRecovers ==
    /\ ~metrics.accepting
    /\ metrics' = [metrics EXCEPT !.accepting = TRUE]
    /\ UNCHANGED <<loopVars, conversationHistory, requests, outside>>

\* a caller that holds getAnalytics() records a tool execution itself
CallRecordToolExecution(event) ==
    /\ Len(metrics.tool_executions) < MaxRows
    /\ metrics' = recordToolExecution(metrics, event)
    /\ UNCHANGED <<loopVars, conversationHistory, requests, outside>>

\* a caller that holds getAnalytics() calls a query method: the method
\* runs its statements up to the point where it gives way, and a method
\* that gave way goes on from there
Query(call) ==
    /\ LET running == Len(query.got) < Len(Statements(query.call))
           q == IF running THEN query ELSE [call |-> call, got |-> <<>>]
           last == UntilAwait(Len(q.got) + 1, Len(Statements(q.call)))
       IN /\ running => call = query.call
          /\ \E got \in RunStatements(metrics, q.call, q.got, last) :
                query' = [call |-> q.call, got |-> got]
    /\ UNCHANGED <<loopVars, conversationHistory, requests, metrics, parked,
                   busVars, now, web, planner>>

\* the locals of the invocation that is running
Locals ==
    [pc |-> pc, agentKey |-> agentKey, sessionId |-> sessionId,
     messages |-> messages, toolsUsed |-> toolsUsed,
     finalResult |-> finalResult, toolUses |-> toolUses, toolPc |-> toolPc,
     toolResults |-> toolResults, calls |-> calls,
     serviceCalls |-> serviceCalls, result |-> result]

\* lines 392-575, at any await: the invocation that is running waits and
\* the other invocation on the same orchestrator goes on; the events, the
\* Session Registry and the Metrics Store are the orchestrator's
Switch ==
    /\ parked' = Locals
    /\ pc' = parked.pc
    /\ agentKey' = parked.agentKey
    /\ sessionId' = parked.sessionId
    /\ messages' = parked.messages
    /\ toolsUsed' = parked.toolsUsed
    /\ finalResult' = parked.finalResult
    /\ toolUses' = parked.toolUses
    /\ toolPc' = parked.toolPc
    /\ toolResults' = parked.toolResults
    /\ calls' = parked.calls
    /\ serviceCalls' = parked.serviceCalls
    /\ result' = parked.result
    /\ UNCHANGED <<events, conversationHistory, requests, metrics, busVars,
                   now, query,
                   web, planner>>

-----------------------------------------------------------------------------
(* Session Registry and processRequest *)

\* getConversationContext: the entry of s, created empty when absent
getConversationContext(reg, s) ==
    IF s \in DOMAIN reg THEN reg
    ELSE [k \in DOMAIN reg \cup {s} |->
             IF k = s
             THEN [messages |-> <<>>, maxHistory |-> DefaultMaxHistory]
             ELSE reg[k]]

\* a trim that keeps the oldest messages
trimConversationHistoryOldest(context) ==
    [context EXCEPT !.messages =
        IF Len(@) > context.maxHistory
        THEN SubSeq(@, 1, context.maxHistory)
        ELSE @]

\* trimConversationHistory on a registry entry
trimConversationHistory(context) ==
    [context EXCEPT !.messages =
        Trim(context.messages,
             IF context.maxHistory = 0 THEN DefaultMaxHistory
             ELSE context.maxHistory)]

\* lines 112-120: entry looked up or created, the user message pushed, then
\* the call waits for planExecution
ProcessRequestBegin(r, s) ==
    /\ requests[r].pc = "new"
    /\ LET reg == getConversationContext(conversationHistory, s)
       IN conversationHistory' =
            [reg EXCEPT ![s].messages =
                Append(@, Message("user", <<TextBlock(Input)>>))]
    /\ requests' = [requests EXCEPT
                       ![r] = [pc |-> "awaiting", sessionId |-> s,
                               attached |-> TRUE]]
    /\ UNCHANGED loopVars
    /\ UNCHANGED <<metrics, outside>>

\* lines 127-143: the assistant message is pushed on the context the call
\* holds and that context is trimmed; after a clearConversation the context
\* is no longer the registry's
ProcessRequestEnd(r) ==
    /\ requests[r].pc = "awaiting"
    /\ LET s == requests[r].sessionId
       IN conversationHistory' =
            IF requests[r].attached
            THEN [conversationHistory EXCEPT ![s] =
                    trimConversationHistory(
                        [@ EXCEPT !.messages =
                            Append(@, Message("assistant",
                                              <<TextBlock("reply")>>))])]
            ELSE conversationHistory
    /\ requests' = [requests EXCEPT ![r] = [pc |-> "done"]]
    /\ UNCHANGED loopVars
    /\ UNCHANGED <<metrics, outside>>

\* lines 145-154: an exception reaches the catch, nothing more is pushed
ProcessRequestFails(r) ==
    /\ requests[r].pc = "awaiting"
    /\ requests' = [requests EXCEPT ![r] = [pc |-> "done"]]
    /\ UNCHANGED <<conversationHistory, loopVars>>
    /\ UNCHANGED <<metrics, outside>>

\* the processRequest call has returned and the caller calls again, while
\* every entry of the registry holds fewer than MaxKept messages, or holds
\* about as many as it is trimmed to and fewer than MaxKept - 1 more
NextRequest(r) ==
    /\ requests[r].pc = "done"
    /\ \A s \in DOMAIN conversationHistory :
          LET held == Len(conversationHistory[s].messages)
          IN \/ held < MaxKept
             \/ /\ held >= DefaultMaxHistory - MaxKept
                /\ held < DefaultMaxHistory + MaxKept - 1
    /\ requests' = [requests EXCEPT ![r] = [pc |-> "new"]]
    /\ UNCHANGED <<conversationHistory, loopVars>>
    /\ UNCHANGED <<metrics, outside>>

\* a clear that empties the whole registry
clearConversationAll(s) ==
    /\ conversationHistory' = EmptyRegistry
    /\ requests' = [r \in DOMAIN requests |->
                       IF requests[r].pc = "awaiting"
                       THEN [requests[r] EXCEPT !.attached = FALSE]
                       ELSE requests[r]]
    /\ UNCHANGED loopVars
    /\ UNCHANGED <<metrics, outside>>

\* a clear that takes the session's tool-execution records along
clearConversationCascading(s) ==
    /\ conversationHistory' =
         [k \in DOMAIN conversationHistory \ {s} |-> conversationHistory[k]]
    /\ requests' = [r \in DOMAIN requests |->
                       IF requests[r].pc = "awaiting"
                          /\ requests[r].sessionId = s
                       THEN [requests[r] EXCEPT !.attached = FALSE]
                       ELSE requests[r]]
    /\ LET Others(row) == row.session_id # s
       IN metrics' = [metrics EXCEPT
                         !.tool_executions = SelectSeq(@, Others)]
    /\ UNCHANGED loopVars
    /\ UNCHANGED outside

\* lines 654-657
clearConversation(s) ==
    /\ conversationHistory' =
         [k \in DOMAIN conversationHistory \ {s} |-> conversationHistory[k]]
    /\ requests' = [r \in DOMAIN requests |->
                       IF requests[r].pc = "awaiting"
                          /\ requests[r].sessionId = s
                       THEN [requests[r] EXCEPT !.attached = FALSE]
                       ELSE requests[r]]
    /\ UNCHANGED loopVars
    /\ UNCHANGED <<metrics, outside>>

-----------------------------------------------------------------------------
(* EventEmitter (event-emitter.ts), with handlers of any kind: a handler   *)
(* returns, throws, or returns a promise that is fulfilled or rejected     *)
(* later, and it may call on and off while it runs.  In the record of an   *)
(* emit, registered, called and args are not state of the program: they    *)
(* note the registrations at the call, and the handlers invoked so far     *)
(* with the arguments they got.                                            *)

HandlerIds == {"h1", "h2"}

EventNames == {"tool_complete", "session_end"}

\* the payload emit is called with
Data(e) == <<"data of", e>>

Settled == {"returned", "threw", "resolved", "rejected"}

\* this.handlers.get(event) || []
NamedHandlers(e) == IF e \in DOMAIN handlers THEN handlers[e] ELSE <<>>

\* registrations held by the emitter
Registrations ==
    Len(wildCardHandlers)
        + Cardinality({<<e, i>> \in (DOMAIN handlers) \X (1..MaxHandlers + 1) :
                          i <= Len(handlers[e])})

\* array.indexOf(handler), 0 when absent
RECURSIVE IndexOf(_, _)
IndexOf(list, h) ==
    IF list = <<>> THEN 0
    ELSE IF Head(list) = h THEN 1
         ELSE IF IndexOf(Tail(list), h) = 0 THEN 0
              ELSE 1 + IndexOf(Tail(list), h)

\* array.splice(index, 1)
Splice(list, index) ==
    [j \in 1..(Len(list) - 1) |-> IF j < index THEN list[j] ELSE list[j + 1]]

\* a synchronous part of an emit is running: only its handlers can act
Calling == \E k \in DOMAIN emits : emits[k].state = "calling"

\* a registration that also reaches the emits whose handlers are being
\* invoked: emit iterates the shared arrays instead of a copy
onIntoRunningEmits(e, h) ==
    /\ Registrations < MaxHandlers
    /\ IF e = "*"
       THEN /\ wildCardHandlers' = Append(wildCardHandlers, h)
            /\ UNCHANGED handlers
       ELSE /\ handlers' =
                 [n \in DOMAIN handlers \cup {e} |->
                     IF n = e THEN Append(NamedHandlers(e), h)
                     ELSE handlers[n]]
            /\ UNCHANGED wildCardHandlers
    /\ emits' = [k \in DOMAIN emits |->
                    IF emits[k].state = "calling" /\ e \in {"*", emits[k].event}
                    THEN [emits[k] EXCEPT !.allHandlers = Append(@, h)]
                    ELSE emits[k]]
    /\ UNCHANGED <<loopVars, conversationHistory, requests, metrics, parked,
                   now, query,
                   web, planner>>

\* lines 36-46
on(e, h) ==
    /\ Registrations < MaxHandlers
    /\ IF e = "*"
       THEN /\ wildCardHandlers' = Append(wildCardHandlers, h)
            /\ UNCHANGED handlers
       ELSE /\ handlers' =
                 [n \in DOMAIN handlers \cup {e} |->
                     IF n = e THEN Append(NamedHandlers(e), h)
                     ELSE handlers[n]]
            /\ UNCHANGED wildCardHandlers
    /\ UNCHANGED <<emits, loopVars, conversationHistory, requests, metrics,
                   parked, now, query,
                   web, planner>>

\* an off without the index > -1 tests: splice(-1, 1) takes the last
\* handler of the list when the handler is not in it
offUnguarded(e, h) ==
    /\ IF e = "*"
       THEN /\ wildCardHandlers' =
                 IF IndexOf(wildCardHandlers, h) > 0
                 THEN Splice(wildCardHandlers, IndexOf(wildCardHandlers, h))
                 ELSE SubSeq(wildCardHandlers, 1, Len(wildCardHandlers) - 1)
            /\ UNCHANGED handlers
       ELSE /\ handlers' =
                 IF e \in DOMAIN handlers
                 THEN [handlers EXCEPT
                          ![e] = IF IndexOf(@, h) > 0
                                 THEN Splice(@, IndexOf(@, h))
                                 ELSE SubSeq(@, 1, Len(@) - 1)]
                 ELSE handlers
            /\ UNCHANGED wildCardHandlers
    /\ UNCHANGED <<emits, loopVars, conversationHistory, requests, metrics,
                   parked, now, query,
                   web, planner>>

\* lines 48-64
off(e, h) ==
    /\ IF e = "*"
       THEN /\ wildCardHandlers' =
                 IF IndexOf(wildCardHandlers, h) > 0
                 THEN Splice(wildCardHandlers, IndexOf(wildCardHandlers, h))
                 ELSE wildCardHandlers
            /\ UNCHANGED handlers
       ELSE /\ handlers' =
                 IF e \in DOMAIN handlers /\ IndexOf(handlers[e], h) > 0
                 THEN [handlers EXCEPT
                          ![e] = Splice(@, IndexOf(handlers[e], h))]
                 ELSE handlers
            /\ UNCHANGED wildCardHandlers
    /\ UNCHANGED <<emits, loopVars, conversationHistory, requests, metrics,
                   parked, now, query,
                   web, planner>>

\* lines 67-68: the handlers an emit calls are copied when emit is called
AllHandlers(e) == NamedHandlers(e) \o wildCardHandlers

\* line 71: the map runs over the copy
Snapshot(k) == emits[k].allHandlers

\* lines 66-70: emit is called by a caller that awaits it; the map over
\* allHandlers starts
EmitCall(e) ==
    /\ emits = <<>>
    /\ emits' = Append(emits,
          [event |-> e, data |-> Data(e),
           allHandlers |-> AllHandlers(e),
           registered |-> NamedHandlers(e) \o wildCardHandlers,
           called |-> <<>>, outcome |-> <<>>, args |-> <<>>,
           state |-> IF AllHandlers(e) = <<>> THEN "awaiting" ELSE "calling"])
    /\ UNCHANGED <<handlers, wildCardHandlers, loopVars, conversationHistory,
                   requests, metrics, parked,
                   now, query,
                   web, planner>>

\* a map callback without the try: a handler that throws rejects Promise.all
HandlerRunsUncaught(k, how) ==
    /\ k \in DOMAIN emits
    /\ emits[k].state = "calling"
    /\ emits' = [emits EXCEPT
          ![k].called = Append(@, Snapshot(k)[Len(@) + 1]),
          ![k].outcome = Append(@, how),
          ![k].args = Append(@, emits[k].data),
          ![k].state = IF how = "threw" THEN "rejected"
                       ELSE IF Len(emits[k].outcome) + 1 < Len(Snapshot(k))
                       THEN "calling" ELSE "awaiting"]
    /\ UNCHANGED <<handlers, wildCardHandlers, loopVars, conversationHistory,
                   requests, metrics, parked,
                   now, query,
                   web, planner>>

\* lines 71-77: the next handler of the map is called with data; it
\* returns, throws (caught), or returns a promise that is still pending
HandlerRuns(k, how) ==
    /\ k \in DOMAIN emits
    /\ emits[k].state = "calling"
    /\ emits' = [emits EXCEPT
          ![k].called = Append(@, Snapshot(k)[Len(@) + 1]),
          ![k].outcome = Append(@, how),
          ![k].args = Append(@, emits[k].data),
          ![k].state = IF Len(emits[k].outcome) + 1 < Len(Snapshot(k))
                       THEN "calling" ELSE "awaiting"]
    /\ UNCHANGED <<handlers, wildCardHandlers, loopVars, conversationHistory,
                   requests, metrics, parked,
                   now, query,
                   web, planner>>

\* lines 72-76: the promise a handler returned is fulfilled or rejected;
\* the rejection is caught
HandlerSettles(k, i, how) ==
    /\ k \in DOMAIN emits
    /\ ~Calling
    /\ i \in DOMAIN emits[k].outcome
    /\ emits[k].outcome[i] = "pending"
    /\ emits' = [emits EXCEPT ![k].outcome[i] = how]
    /\ UNCHANGED <<handlers, wildCardHandlers, loopVars, conversationHistory,
                   requests, metrics, parked,
                   now, query,
                   web, planner>>

\* an emit that does not wait for the promises of its handlers
EmitSettlesEarly(k) ==
    /\ k \in DOMAIN emits
    /\ emits[k].state = "awaiting"
    /\ emits' = [emits EXCEPT ![k].state = "fulfilled"]
    /\ UNCHANGED <<handlers, wildCardHandlers, loopVars, conversationHistory,
                   requests, metrics, parked,
                   now, query,
                   web, planner>>

\* lines 70-78: Promise.all is fulfilled once every callback of the map is
\* over, and with it the promise of emit
EmitSettles(k) ==
    /\ k \in DOMAIN emits
    /\ emits[k].state = "awaiting"
    /\ \A i \in DOMAIN emits[k].outcome : emits[k].outcome[i] \in Settled
    /\ emits' = [emits EXCEPT ![k].state = "fulfilled"]
    /\ UNCHANGED <<handlers, wildCardHandlers, loopVars, conversationHistory,
                   requests, metrics, parked,
                   now, query,
                   web, planner>>

\* orchestrator.ts lines 421, 477, 491, 513, 555: the caller awaits emit and
\* takes its next step when the promise of emit is settled
CallerResumes(k) ==
    /\ k \in DOMAIN emits
    /\ k = Len(emits)
    /\ emits[k].state \in {"fulfilled", "rejected"}
    /\ emits' = SubSeq(emits, 1, k - 1)
    /\ UNCHANGED <<handlers, wildCardHandlers, loopVars, conversationHistory,
                   requests, metrics, parked,
                   now, query,
                   web, planner>>

\* ---- once, and emits issued by handlers ----
\* Here the record of an emit stays in emits after the emit is over, and a
\* handler is called (called grows) before it returns (outcome grows), so
\* that it can call emit in between; inside notes the emit whose handler
\* called this one, 0 for an emit called by a caller.

\* lines 82-85: the wrapper once makes for handler h; calling it calls
\* off(event, wrapper) and then h
onceHandler(h) == IF h = "h1" THEN "onceHandler of h1" ELSE "onceHandler of h2"

\* lines 81-87: once(event, handler), called one time for a handler
once(e, h) ==
    /\ \A n \in DOMAIN handlers : IndexOf(handlers[n], onceHandler(h)) = 0
    /\ \A k \in DOMAIN emits :
          IndexOf(emits[k].allHandlers, onceHandler(h)) = 0
    /\ on(e, onceHandler(h))

\* lines 70-71: the emit whose map is calling handlers now, the innermost
\* one when a handler has called emit; 0 when none is
RunningEmit ==
    LET calling == {k \in DOMAIN emits : emits[k].state = "calling"}
    IN IF calling = {} THEN 0
       ELSE CHOOSE k \in calling : \A j \in calling : j <= k

\* lines 66-70: emit is called, by a caller while no map is running or by
\* the handler that the running map has called
OnceEmitCall(e) ==
    /\ Len(emits) < MaxEmits
    /\ RunningEmit # 0 =>
          Len(emits[RunningEmit].called) > Len(emits[RunningEmit].outcome)
    /\ emits' = Append(emits,
          [event |-> e, data |-> Data(e),
           allHandlers |-> AllHandlers(e),
           registered |-> NamedHandlers(e) \o wildCardHandlers,
           called |-> <<>>, outcome |-> <<>>, args |-> <<>>,
           inside |-> RunningEmit,
           state |-> IF AllHandlers(e) = <<>> THEN "awaiting" ELSE "calling"])
    /\ UNCHANGED <<handlers, wildCardHandlers, loopVars, conversationHistory,
                   requests, metrics, parked, now, query, web,
                   planner>>

\* lines 71-73, 82-84: the map calls its next handler; a wrapper made by
\* once first takes itself off the list of the event, when it is there
OnceHandlerCalled(k) ==
    /\ k # 0
    /\ k = RunningEmit
    /\ Len(emits[k].called) = Len(emits[k].outcome)
    /\ LET h == Snapshot(k)[Len(emits[k].called) + 1]
           e == emits[k].event
       IN /\ emits' = [emits EXCEPT ![k].called = Append(@, h),
                                    ![k].args = Append(@, emits[k].data)]
          /\ handlers' =
                IF /\ h \in {onceHandler(x) : x \in HandlerIds}
                   /\ e \in DOMAIN handlers
                   /\ IndexOf(handlers[e], h) > 0
                THEN [handlers EXCEPT ![e] = Splice(@, IndexOf(handlers[e], h))]
                ELSE handlers
    /\ UNCHANGED <<wildCardHandlers, loopVars, conversationHistory, requests,
                   metrics, parked, now, query, web, planner>>

\* lines 72-76: the handler that was called returns, throws (caught), or
\* returns a promise; the map goes on
OnceHandlerReturns(k, how) ==
    /\ k # 0
    /\ k = RunningEmit
    /\ Len(emits[k].called) = Len(emits[k].outcome) + 1
    /\ emits' = [emits EXCEPT
          ![k].outcome = Append(@, how),
          ![k].state = IF Len(emits[k].called) < Len(Snapshot(k))
                       THEN "calling" ELSE "awaiting"]
    /\ UNCHANGED <<handlers, wildCardHandlers, loopVars, conversationHistory,
                   requests, metrics, parked, now, query, web,
                   planner>>

OnceSpec ==
    /\ InitFresh
    /\ [][\/ \E h \in HandlerIds : on("session_end", h)
          \/ \E h \in HandlerIds : once("session_end", h)
          \/ OnceEmitCall("session_end")
          \/ OnceHandlerCalled(RunningEmit)
          \/ \E how \in {"returned", "pending"} :
                OnceHandlerReturns(RunningEmit, how)]_vars

BusNext ==
    \/ \E e \in EventNames \cup {"*"}, h \in HandlerIds : on(e, h)
    \/ \E e \in EventNames \cup {"*"}, h \in HandlerIds : off(e, h)
    \/ \E e \in EventNames : EmitCall(e)
    \/ \E k \in DOMAIN emits, how \in {"returned", "threw", "pending"} :
          HandlerRuns(k, how)
    \/ \E k \in DOMAIN emits, i \in 1..MaxHandlers,
          how \in {"resolved", "rejected"} : HandlerSettles(k, i, how)
    \/ \E k \in DOMAIN emits : EmitSettles(k)
    \/ \E k \in DOMAIN emits : CallerResumes(k)

BusSpec == InitFresh /\ [][BusNext]_vars

-----------------------------------------------------------------------------
(* Specifications *)

\* the service answers with any mix of known and unknown tool requests
ServiceRequestsTools ==
    /\ ToolTurnAllowed
    /\ \E content \in ToolTurnContents(Turns + 1) : ModelRequestsTools(content)

\* the service answers with one list_files request
ServiceRequestsOneTool ==
    /\ Turns < MaxTurns
    /\ ModelRequestsTools(TrivialContent(Turns + 1))

\* the loop, with every mix of tool requests and tool outcomes
Next ==
    \/ \E a \in AgentKeys, s \in SessionIds : Invoke(a, s)
    \/ ModelFails
    \/ \E content \in TextContents : ModelAnswersText(content)
    \/ ServiceRequestsTools
    \/ \E i \in 1..MaxTools : ToolExecute(i)
    \/ \E i \in 1..MaxTools : ToolReturns(i)
    \/ \E i \in 1..MaxTools : ToolThrows(i)
    \/ CollectResults
    \/ Finish

Spec == Init /\ [][Next]_vars

\* the loop with tools that may return no value
ReturnSpec ==
    Init /\ [][Next \/ \E i \in 1..MaxTools : ToolReturnsNothing(i)]_vars

\* the loop next to processRequest and clearConversation calls on the same
\* orchestrator; the service asks for one tool at a time
SessionNext ==
    \/ \E a \in AgentKeys, s \in SessionIds : Invoke(a, s)
    \/ ModelFails
    \/ \E content \in TextContents : ModelAnswersText(content)
    \/ ServiceRequestsOneTool
    \/ ToolExecute(1)
    \/ ToolReturns(1)
    \/ ToolThrows(1)
    \/ CollectResults
    \/ Finish
    \/ \E r \in 1..MaxRequests, s \in SessionIds : ProcessRequestBegin(r, s)
    \/ \E r \in 1..MaxRequests : ProcessRequestEnd(r)
    \/ \E r \in 1..MaxRequests : ProcessRequestFails(r)
    \/ \E s \in SessionIds : clearConversation(s)

SessionSpec == InitFresh /\ [][SessionNext]_vars

\* a caller that invokes again and again, next to processRequest calls; the
\* service answers with text or fails
ServiceAnswers == ModelAnswersText(<<TextBlock("answer")>>)

RetryNext ==
    \/ \E a \in AgentKeys, s \in SessionIds : Invoke(a, s)
    \/ ModelFails
    \/ ServiceAnswers
    \/ Finish
    \/ NextInvocation
    \/ \E r \in 1..MaxRequests, s \in SessionIds : ProcessRequestBegin(r, s)
    \/ \E r \in 1..MaxRequests : ProcessRequestEnd(r)

RetrySpec == InitFresh /\ [][RetryNext]_vars

\* two invocations with different session ids, interleaved at their awaits
InvokeOther ==
    \E a \in AgentKeys, s \in SessionIds :
        s # parked.sessionId /\ Invoke(a, s)

ConcurrentNext ==
    \/ InvokeOther
    \/ ModelFails
    \/ ServiceAnswers
    \/ ServiceRequestsOneTool
    \/ ToolExecute(1)
    \/ ToolReturns(1)
    \/ ToolThrows(1)
    \/ CollectResults
    \/ Finish
    \/ Switch

ConcurrentSpec == InitFresh /\ [][ConcurrentNext]_vars

\* the loop and its records over time: invocations one after the other with
\* one session id, for agents that have tools, while the clock advances
InvokeWithTools ==
    \E a \in {"file", "code"} : Invoke(a, "s1")

AnalyticsNext ==
    \/ InvokeWithTools
    \/ ModelFails
    \/ ServiceAnswers
    \/ ServiceRequestsOneTool
    \/ ToolExecute(1)
    \/ ToolReturns(1)
    \/ ToolThrows(1)
    \/ CollectResults
    \/ Finish
    \/ NextInvocation
    \/ Tick

AnalyticsSpec == InitFresh /\ [][AnalyticsNext]_vars

\* ToolExecutionEvent values of a tool that started now or a millisecond
\* ago and has completed now, at time 0, or not at all
TimedExecutions ==
    { [sessionId |-> "s1", agentKey |-> "file", toolName |-> "list_files",
       startedAt |-> now - back, completedAt |-> done,
       status |-> IF done = SqlNull THEN "timeout" ELSE "success",
       errorMessage |-> SqlNull] :
      back \in {0, 1}, done \in {SqlNull, <<0>>, <<now>>} }

\* the Metrics Store written by direct calls over time
StoreNext ==
    \/ \E event \in TimedExecutions : CallRecordToolExecution(event)
    \/ Tick

StoreSpec == InitFresh /\ [][StoreNext]_vars

\* the calls of the multi-statement query methods the model makes
MetricsCalls ==
    { <<"getToolMetrics", <<>>>>,
      <<"getToolMetrics", <<[start |-> 0, end |-> 0]>>>>,
      <<"getAgentMetrics", "file", <<>>>>,
      <<"getErrorRate", <<>>>> }

\* loops whose listener writes while a dashboard queries
QueryNext ==
    \/ InvokeWithTools
    \/ ModelFails
    \/ NextInvocation
    \/ ServiceAnswers
    \/ ServiceRequestsOneTool
    \/ ToolExecute(1)
    \/ ToolReturns(1)
    \/ ToolThrows(1)
    \/ CollectResults
    \/ Finish
    \/ \E call \in MetricsCalls : Query(call)

QuerySpec == InitFresh /\ [][QueryNext]_vars

\* ToolExecutionEvent values of three tools that succeeded or failed
NamedExecutions ==
    { [sessionId |-> "s1", agentKey |-> "file", toolName |-> name,
       startedAt |-> now, completedAt |-> <<now>>, status |-> status,
       errorMessage |-> SqlNull] :
      name \in {"list_files", "read_file", "write_file"},
      status \in {"success", "error"} }

\* the limits getTopTools is called with: the dashboard passes
\* parseInt(req.query.limit) || 10
Limits == {-1, 0, 1, 2, 10}

\* the Metrics Store written by direct calls and read by getTopTools
TopToolsNext ==
    \/ \E event \in NamedExecutions : CallRecordToolExecution(event)
    \/ \E limit \in Limits : Query(<<"getTopTools", limit>>)

TopToolsSpec == InitFresh /\ [][TopToolsNext]_vars

\* every operation that touches the Metrics Store, next to a session of
\* the registry that is cleared: one loop, a direct call, the queries, and
\* a processRequest whose session is cleared
RecordsNext ==
    \/ Invoke("file", "s1")
    \/ ServiceAnswers
    \/ ServiceRequestsOneTool
    \/ ToolExecute(1)
    \/ ToolReturns(1)
    \/ ToolThrows(1)
    \/ CollectResults
    \/ Finish
    \/ \E call \in {<<"getErrorRate", <<>>>>, <<"getTopTools", 10>>} :
          Query(call)
    \/ \E event \in {e \in NamedExecutions : /\ e.toolName = "read_file"
                                               /\ e.status = "error"} :
          CallRecordToolExecution(event)
    \/ \E r \in 1..MaxRequests : ProcessRequestBegin(r, "s1")
    \/ \E r \in 1..MaxRequests : ProcessRequestEnd(r)
    \/ clearConversation("s1")

RecordsSpec == InitFresh /\ [][RecordsNext]_vars

\* processRequest calls one after another, on either session, next to
\* clearConversation calls
RegistryNext ==
    \/ \E r \in 1..MaxRequests, s \in SessionIds : ProcessRequestBegin(r, s)
    \/ \E r \in 1..MaxRequests : ProcessRequestEnd(r)
    \/ \E r \in 1..MaxRequests : ProcessRequestFails(r)
    \/ \E r \in 1..MaxRequests : NextRequest(r)
    \/ \E s \in SessionIds : clearConversation(s)

RegistrySpec == InitFresh /\ [][RegistryNext]_vars

\* further processRequest calls of a session whose entry is full
LongSessionNext ==
    \/ \E r \in 1..MaxRequests : ProcessRequestBegin(r, "s1")
    \/ \E r \in 1..MaxRequests : ProcessRequestEnd(r)
    \/ \E r \in 1..MaxRequests : ProcessRequestFails(r)
    \/ \E r \in 1..MaxRequests : NextRequest(r)

LongSessionSpec == InitLongSession /\ [][LongSessionNext]_vars

\* ---- the Web Research Agent ----

\* parseInput: an input is its words and the URL it holds ("" when it holds
\* none); the result is the tool and params.url ("" when params has no url)
parseInput(input) ==
    IF input.text = "search" /\ input.url = ""
    THEN [tool |-> "search_web", url |-> ""]
    ELSE LET url == IF input.url # "" THEN input.url ELSE input.text
         IN IF input.text = "links"
            THEN [tool |-> "extract_links", url |-> url]
            ELSE IF input.text = "fetch"
                 THEN [tool |-> "fetch_api", url |-> url]
                 ELSE [tool |-> "scrape_webpage", url |-> url]

\* checkRateLimit(key): whether the request is admitted, and the map after
checkRateLimit(limiter, key) ==
    LET lastRequest == IF key \in DOMAIN limiter THEN limiter[key] ELSE 0
    IN IF now - lastRequest < 1000
       THEN [admitted |-> FALSE, rateLimiter |-> limiter]
       ELSE [admitted |-> TRUE,
             rateLimiter |-> [k \in DOMAIN limiter \cup {key} |->
                                 IF k = key THEN now ELSE limiter[k]]]

\* WebResearchAgent.execute(input); the tool it awaits returns or throws.
\* The process runs later than one second after the epoch.
WebExecute(input, outcome) ==
    /\ now >= 1000
    /\ Len(web.responses) < MaxWebCalls
    /\ LET parsed == parseInput(input)
           checked == checkRateLimit(web.rateLimiter,
                         IF parsed.url # "" THEN parsed.url ELSE "general")
           response ==
               IF ~checked.admitted
               THEN [success |-> FALSE,
                     error |-> "Rate limit exceeded. Please wait before making more requests.",
                     toolsUsed |-> <<>>]
               ELSE IF outcome = "returned"
                    THEN [success |-> TRUE, error |-> "",
                          toolsUsed |-> <<parsed.tool>>]
                    ELSE [success |-> FALSE, error |-> "tool failed",
                          toolsUsed |-> <<>>]
       IN web' = [rateLimiter |-> checked.rateLimiter,
                  responses |-> Append(web.responses,
                      [input |-> input, at |-> now, url |-> parsed.url,
                       ran |-> checked.admitted, response |-> response])]
    /\ UNCHANGED <<loopVars, conversationHistory, requests, metrics, parked,
                   busVars, now, query, planner>>

\* half a second passes
Pause ==
    /\ now < 1 + 500 * MaxPauses
    /\ now' = now + 500
    /\ UNCHANGED <<loopVars, conversationHistory, requests, metrics, parked,
                   busVars, query, web, planner>>

WebInputs ==
    {[text |-> "scrape", url |-> "https://a.com/x"],
     [text |-> "fetch", url |-> "https://a.com/y"],
     [text |-> "links", url |-> "https://b.org/"],
     [text |-> "search", url |-> ""]}

WebNext ==
    \/ \E input \in WebInputs, outcome \in {"returned", "threw"} :
          WebExecute(input, outcome)
    \/ Pause

WebSpec == InitFresh /\ [][WebNext]_vars

\* ---- the Task Planning Agent ----
\* A step is identified by its place in plan.steps (the program gives it a
\* uuid).  A call of execute_plan is [planId, stepId, order, results, pc]:
\* stepId is 0 when the call names no step, order holds the step the call
\* is at and the steps it has still to run, results the status of each
\* executeStep that has returned, and pc is "delegating" while the call
\* awaits delegateToAgent and "returned" afterwards.

PlanIds == {"p1"}

\* lines 155-255: the steps of one template, each depending on the step
\* before it; three of them under the constraint 'fast'
generateSteps(fast) ==
    [i \in 1..(IF fast THEN 3 ELSE 4) |->
        [id |-> i,
         dependencies |-> IF i > 1 THEN <<i - 1>> ELSE <<>>,
         status |-> "pending"]]

\* lines 124-153
createPlan(p, fast) ==
    /\ p \notin DOMAIN planner.executionPlans
    /\ planner' = [planner EXCEPT !.executionPlans =
                      [k \in DOMAIN @ \cup {p} |->
                          IF k = p
                          THEN [steps |-> generateSteps(fast),
                                status |-> "pending"]
                          ELSE @[k]]]
    /\ UNCHANGED <<loopVars, conversationHistory, requests, metrics, parked,
                   busVars, now, query, web>>

\* a dependency check that lets every step through
dependenciesIgnored(plan, stepId) == TRUE

\* lines 296-299
dependenciesCompleted(plan, stepId) ==
    \A j \in DOMAIN plan.steps[stepId].dependencies :
        LET depId == plan.steps[stepId].dependencies[j]
        IN /\ depId \in DOMAIN plan.steps
           /\ plan.steps[depId].status = "completed"

\* lines 289-316: executeStep up to its await
executeStepBegins(plan, stepId) ==
    IF ~dependenciesCompleted(plan, stepId)
    THEN [plan |-> plan, status |-> "blocked"]
    ELSE [plan |-> [plan EXCEPT !.steps[stepId].status = "in_progress",
                                !.status = "in_progress"],
          status |-> "in_progress"]

\* lines 316-331: delegateToAgent has resolved (it never rejects)
executeStepEnds(plan, stepId) ==
    LET done == [plan EXCEPT !.steps[stepId].status = "completed"]
    IN IF \A i \in DOMAIN done.steps : done.steps[i].status = "completed"
       THEN [done EXCEPT !.status = "completed"]
       ELSE done

\* lines 392-410: visit for each id of ids in turn; a step is pushed after
\* the steps it depends on (generateSteps makes no circular dependency)
RECURSIVE visit(_, _, _)
visit(steps, ids, order) ==
    IF ids = <<>> THEN order
    ELSE LET stepId == Head(ids)
             visited == {order[i] : i \in DOMAIN order}
             after == IF stepId \in visited THEN order
                      ELSE Append(visit(steps, steps[stepId].dependencies,
                                        order),
                                  stepId)
         IN visit(steps, Tail(ids), after)

\* lines 387-419
calculateExecutionOrder(steps) ==
    visit(steps, [i \in DOMAIN steps |-> steps[i].id], <<>>)

\* lines 353-375: the loop of executeEntirePlan from the head of order, up
\* to the await of the next step that runs or to the end of the loop
RECURSIVE executeEntirePlanFrom(_, _, _)
executeEntirePlanFrom(plan, order, results) ==
    IF order = <<>>
    THEN [plan |-> [plan EXCEPT !.status = IF @ # "failed" THEN "completed"
                                           ELSE @],
          order |-> <<>>, results |-> results, pc |-> "returned"]
    ELSE LET begun == executeStepBegins(plan, Head(order))
         IN IF begun.status = "blocked"
            THEN executeEntirePlanFrom(plan, Tail(order),
                                       Append(results, "blocked"))
            ELSE [plan |-> begun.plan, order |-> order, results |-> results,
                  pc |-> "delegating"]

\* lines 272-287, 289-316, 345-353: execute_plan is called for a step of
\* plan p, or for the whole plan when stepId is 0
ExecutePlan(p, stepId) ==
    /\ Len(planner.calls) < MaxPlanCalls
    /\ p \in DOMAIN planner.executionPlans
    /\ stepId \in {0} \cup DOMAIN planner.executionPlans[p].steps
    /\ LET plan == planner.executionPlans[p]
           begun == executeStepBegins(plan, stepId)
           ran == IF stepId # 0
                  THEN [plan |-> begun.plan, order |-> <<stepId>>,
                        results |-> IF begun.status = "blocked"
                                    THEN <<"blocked">> ELSE <<>>,
                        pc |-> IF begun.status = "blocked"
                               THEN "returned" ELSE "delegating"]
                  ELSE executeEntirePlanFrom(
                           [plan EXCEPT !.status = "in_progress"],
                           calculateExecutionOrder(plan.steps), <<>>)
       IN planner' = [executionPlans |->
                         [planner.executionPlans EXCEPT ![p] = ran.plan],
                      calls |-> Append(planner.calls,
                         [planId |-> p, stepId |-> stepId,
                          order |-> ran.order, results |-> ran.results,
                          pc |-> ran.pc])]
    /\ UNCHANGED <<loopVars, conversationHistory, requests, metrics, parked,
                   busVars, now, query, web>>

\* lines 316-331, 354-375: the delegateToAgent that call c awaits resolves;
\* executeStep returns, and executeEntirePlan goes on with its loop
DelegateReturns(c) ==
    /\ c \in DOMAIN planner.calls
    /\ planner.calls[c].pc = "delegating"
    /\ LET call == planner.calls[c]
           ended == executeStepEnds(planner.executionPlans[call.planId],
                                    Head(call.order))
           ran == IF call.stepId # 0
                  THEN [plan |-> ended, order |-> call.order,
                        results |-> <<"completed">>, pc |-> "returned"]
                  ELSE executeEntirePlanFrom(ended, Tail(call.order),
                           Append(call.results, "completed"))
       IN planner' = [executionPlans |->
                         [planner.executionPlans EXCEPT
                             ![call.planId] = ran.plan],
                      calls |-> [planner.calls EXCEPT
                         ![c] = [planId |-> call.planId,
                                 stepId |-> call.stepId,
                                 order |-> ran.order,
                                 results |-> ran.results,
                                 pc |-> ran.pc]]]
    /\ UNCHANGED <<loopVars, conversationHistory, requests, metrics, parked,
                   busVars, now, query, web>>

PlannerSpec ==
    /\ InitFresh
    /\ [][\/ \E p \in PlanIds, fast \in BOOLEAN : createPlan(p, fast)
          \/ \E p \in PlanIds, stepId \in 0..4 : ExecutePlan(p, stepId)
          \/ \E c \in 1..MaxPlanCalls : DelegateReturns(c)]_vars

\* the loop with a database that does not accept every statement
FaultyNext ==
    \/ InvokeWithTools
    \/ ModelFails
    \/ ServiceAnswers
    \/ ServiceRequestsOneTool
    \/ ToolExecute(1)
    \/ ToolReturns(1)
    \/ ToolThrows(1)
    \/ CollectResults
    \/ Finish
    \/ NextInvocation
    \/ StoreFails
    \/ StoreRecovers

FaultySpec == InitFresh /\ [][FaultyNext]_vars

\* a runaway service: it requests list_files on every turn, the tool
\* returns every time, and every call returns
RunawayInvoke == \E s \in SessionIds : Invoke("file", s)

RunawayRequest ==
    Turns < ForcedTurns /\ ModelRequestsTools(TrivialContent(Turns + 1))

RunawayNext ==
    \/ RunawayInvoke
    \/ RunawayRequest
    \/ ToolExecute(1)
    \/ ToolReturns(1)
    \/ CollectResults
    \/ Finish

RunawaySpec ==
    /\ InitFresh
    /\ [][RunawayNext]_vars
    /\ WF_vars(RunawayRequest)
    /\ WF_vars(ToolExecute(1))
    /\ WF_vars(ToolReturns(1))
    /\ WF_vars(CollectResults)
    /\ WF_vars(Finish)

\* the late start of Spec is a state the runaway loop passes through
LateStart ==
    /\ pc = "awaitingModel"
    /\ agentKey = "file"
    /\ sessionId = "s1"
    /\ messages = TrivialMessages(PrefixTurns)
    /\ toolsUsed = [t \in 1..PrefixTurns |-> "list_files"]
    /\ events = TrivialEvents("s1", "file", PrefixTurns)
    /\ calls = [id \in {<<t, 1>> : t \in 1..PrefixTurns} |-> "returned"]
    /\ serviceCalls = [t \in 1..PrefixTurns |-> "ok"]
    /\ finalResult = Null
    /\ toolUses = <<>> /\ toolPc = <<>> /\ toolResults = <<>>
    /\ result = NoReturn
    /\ metrics = TrivialMetrics("s1", "file", PrefixTurns)

-----------------------------------------------------------------------------
(* Vocabulary of the properties *)

Uses(m) == SelectBlocks(m.content, "tool_use")

\* message p is an assistant turn that requests tools
IsToolTurn(p) == messages[p].role = "assistant" /\ Uses(messages[p]) # <<>>

\* such a turn whose answer has been appended
IsAnsweredTurn(p) == IsToolTurn(p) /\ p < Len(messages)

\* positions of the tool_result blocks of message m that answer request id
ResultsFor(m, id) ==
    {j \in DOMAIN m.content :
        /\ m.content[j].type = "tool_result"
        /\ m.content[j].tool_use_id = id}

\* the tool_result blocks built so far: appended, or held by a callback
AllResults ==
    {b \in UNION {{messages[p].content[j] : j \in DOMAIN messages[p].content} :
                     p \in DOMAIN messages}
             \cup {toolResults[i] : i \in DOMAIN toolResults} :
        b.type = "tool_result"}

EventsOf(type, id) ==
    {k \in DOMAIN events :
        /\ events[k].type = type
        /\ events[k].toolUseId = id}

SessionEvents(type, s) ==
    {k \in DOMAIN events :
        /\ events[k].type = type
        /\ events[k].sessionId = s}

RaisedIds == {id \in DOMAIN calls : calls[id] = "raised"}

\* the step that ends a turn: the callbacks are over and the loop moves on
TurnEnds == pc = "executing" /\ pc' # "executing"

-----------------------------------------------------------------------------
(* C1: every assistant turn that requests tools is answered by the next    *)
(* message, a caller message that holds exactly one tool_result for each   *)
(* request id of the turn and no tool_result for any other id; until that  *)
(* message is appended the loop is still executing the turn.               *)

C1_OneResultPerRequest ==
    \A p \in DOMAIN messages :
        IsToolTurn(p) =>
            IF p = Len(messages) THEN pc = "executing"
            ELSE LET reqs == Uses(messages[p])
                     next == messages[p + 1]
                 IN /\ next.role = "user"
                    /\ \A j \in DOMAIN next.content :
                          /\ next.content[j].type = "tool_result"
                          /\ \E i \in DOMAIN reqs :
                                reqs[i].id = next.content[j].tool_use_id
                    /\ \A i \in DOMAIN reqs :
                          Cardinality(ResultsFor(next, reqs[i].id)) = 1

\* a turn mixing a raising tool and an unknown tool has been answered, and
\* so has a turn whose tool returned
C1_Witness ==
    /\ \E p \in DOMAIN messages :
          /\ IsAnsweredTurn(p)
          /\ \E j, k \in DOMAIN messages[p + 1].content :
                /\ messages[p + 1].content[j].content[1] = "Error"
                /\ messages[p + 1].content[k].content[1]
                       = "Error: Tool not found"
    /\ \E p \in DOMAIN messages :
          /\ IsAnsweredTurn(p)
          /\ \E j \in DOMAIN messages[p + 1].content :
                ~messages[p + 1].content[j].is_error

-----------------------------------------------------------------------------
(* C2 as stated: when a tool raised during a turn, the step that ends the  *)
(* turn takes the loop to the next reasoning-service call.                 *)

TurnEndsAfterRaise ==
    /\ TurnEnds
    /\ \E i \in DOMAIN toolUses :
          /\ toolUses[i].id \in DOMAIN calls'
          /\ calls'[toolUses[i].id] = "raised"

C2_AlwaysNextCall ==
    [][TurnEndsAfterRaise => pc' = "awaitingModel"]_vars

(* C2 as amended: a tool that raised gets a tool_result with is_error set  *)
(* and a tool_error event, the turn then ends in the next service call or, *)
(* when the conversation has grown past 50 messages, in the forced stop    *)
(* that completes the loop; a failure is returned only after a failed      *)
(* service call or for an unknown agent.                                   *)

C2_RaiseIsAnswered ==
    \A id \in RaisedIds :
        /\ \E b \in AllResults : b.tool_use_id = id
        /\ \A b \in AllResults : b.tool_use_id = id => b.is_error
        /\ EventsOf("tool_error", id) # {}

C2_FailureOnlyFromService ==
    (result.kind = "returned" /\ ~result.success) =>
        \/ pc = "notFound"
        \/ /\ pc = "failed"
           /\ serviceCalls # <<>>
           /\ serviceCalls[Len(serviceCalls)] = "error"

C2_ToolFailureIsolated ==
    /\ []C2_RaiseIsAnswered
    /\ []C2_FailureOnlyFromService
    /\ [][TurnEndsAfterRaise =>
            \/ pc' = "awaitingModel"
            \/ pc' = "finishing" /\ Len(messages') > MaxMessages]_vars

\* a tool raised on some turn and the service was called again afterwards
C2_Witness ==
    \E id \in RaisedIds :
        /\ Len(serviceCalls) > id[1]
        /\ \E b \in AllResults : b.tool_use_id = id /\ b.is_error

-----------------------------------------------------------------------------
(* C3 as stated: when a turn requested a tool that is not in the catalog,  *)
(* the step that ends the turn takes the loop to a further service call.   *)

TurnEndsAfterUnknown ==
    /\ TurnEnds
    /\ \E i \in DOMAIN toolUses : ~FindTool(agentKey, toolUses[i])

C3_AlwaysFurtherCall ==
    [][TurnEndsAfterUnknown => pc' = "awaitingModel"]_vars

(* C3 as amended: a request naming a tool that is not in the catalog is    *)
(* answered with a synthetic tool_result (is_error set, message naming the *)
(* tool), the catalog tools requested in the same turn are still executed  *)
(* and answered, and the turn ends in a further service call or, when the  *)
(* conversation has grown past 50 messages, in the forced stop that        *)
(* completes the loop.                                                     *)

C3_UnknownIsAnswered ==
    \A p \in DOMAIN messages :
        IsAnsweredTurn(p) =>
            \A i \in DOMAIN Uses(messages[p]) :
                LET use == Uses(messages[p])[i]
                    next == messages[p + 1]
                IN IF use.name \in Catalog(agentKey)
                   THEN /\ use.id \in DOMAIN calls
                        /\ calls[use.id] # "running"
                        /\ ResultsFor(next, use.id) # {}
                   ELSE /\ use.id \notin DOMAIN calls
                        /\ ResultsFor(next, use.id) # {}
                        /\ \A j \in ResultsFor(next, use.id) :
                              /\ next.content[j].is_error
                              /\ next.content[j].content
                                   = <<"Error: Tool not found", use.name>>

C3_UnknownToolIsolated ==
    /\ []C3_UnknownIsAnswered
    /\ [][TurnEndsAfterUnknown =>
            \/ pc' = "awaitingModel"
            \/ pc' = "finishing" /\ Len(messages') > MaxMessages]_vars

\* a turn asked for an unknown tool and a catalog tool, both were answered,
\* and the service was called again
C3_Witness ==
    \E p \in DOMAIN messages :
        /\ IsAnsweredTurn(p)
        /\ p + 1 < Len(messages)
        /\ \E i, k \in DOMAIN Uses(messages[p]) :
              /\ Uses(messages[p])[i].name \notin Catalog(agentKey)
              /\ Uses(messages[p])[k].id \in DOMAIN calls
        /\ \E j \in DOMAIN messages[p + 1].content :
              messages[p + 1].content[j].content[1] = "Error: Tool not found"

-----------------------------------------------------------------------------
(* C4: once a reasoning-service call has failed, on the first turn or a    *)
(* later one, that call is the last one, the invocation has returned a     *)
(* failure carrying the error, no tool callback is pending, no session_end *)
(* has been published, and nothing is called, dispatched or published      *)
(* afterwards.                                                             *)

ServiceFailed ==
    \E k \in DOMAIN serviceCalls : serviceCalls[k] = "error"

C4_FailedState ==
    ServiceFailed =>
        /\ serviceCalls[Len(serviceCalls)] = "error"
        /\ \A k \in 1..(Len(serviceCalls) - 1) : serviceCalls[k] = "ok"
        /\ pc = "failed"
        /\ result = FailureReturn("service error", toolsUsed)
        /\ toolPc = <<>>
        /\ \A id \in DOMAIN calls : calls[id] # "running"
        /\ SessionEvents("session_end", sessionId) = {}

C4_ServiceErrorAborts ==
    /\ []C4_FailedState
    /\ [][ServiceFailed =>
            UNCHANGED <<serviceCalls, calls, toolsUsed, events, result>>]_vars

\* the service failed on a later turn, after tools had been dispatched
C4_Witness ==
    /\ ServiceFailed
    /\ pc = "failed"
    /\ Len(serviceCalls) > 1
    /\ toolsUsed # <<>>
    /\ ~result.success

-----------------------------------------------------------------------------
(* C5: an invocation that has completed, by a final text response or by    *)
(* the forced stop, has published exactly one session_start and exactly    *)
(* one session_end for its session id.                                     *)

C5_OneStartOneEnd ==
    pc = "completed" =>
        /\ Cardinality(SessionEvents("session_start", sessionId)) = 1
        /\ Cardinality(SessionEvents("session_end", sessionId)) = 1

\* completed by the forced stop: no final text was recorded
C5_Witness ==
    /\ pc = "completed"
    /\ finalResult = Null
    /\ SessionEvents("session_end", sessionId) # {}

-----------------------------------------------------------------------------
(* C6: in the order in which the events of an invocation are handed to     *)
(* the subscribers, session_start is first, every tool_complete or         *)
(* tool_error has the tool_start of its request before it, and when the    *)
(* invocation has completed session_end is last and is the only one.       *)

ToolEventTypes == {"tool_start", "tool_complete", "tool_error"}

C6_EventOrder ==
    /\ events # <<>> =>
          /\ events[1].type = "session_start"
          /\ \A k \in 2..Len(events) : events[k].type # "session_start"
    /\ \A k \in DOMAIN events :
          events[k].type \in {"tool_complete", "tool_error"} =>
              \E j \in 1..(k - 1) :
                  /\ events[j].type = "tool_start"
                  /\ events[j].toolUseId = events[k].toolUseId
    /\ \A k \in DOMAIN events :
          events[k].type = "tool_start" =>
              \A j \in 1..(k - 1) :
                  events[j].type \in {"tool_complete", "tool_error"} =>
                      events[j].toolUseId # events[k].toolUseId
    /\ pc = "completed" =>
          /\ events[Len(events)].type = "session_end"
          /\ \A k \in 1..(Len(events) - 1) :
                events[k].type \in ToolEventTypes \cup {"session_start"}

\* a completed invocation that published a tool_complete and a tool_error
C6_Witness ==
    /\ pc = "completed"
    /\ \E j, k \in DOMAIN events :
          /\ events[j].type = "tool_complete"
          /\ events[k].type = "tool_error"

-----------------------------------------------------------------------------
(* C7 as stated: every request of an answered turn has exactly one         *)
(* tool_start and exactly one of tool_complete and tool_error.             *)

C7_EveryRequestHasEvents ==
    \A p \in DOMAIN messages :
        IsAnsweredTurn(p) =>
            \A i \in DOMAIN Uses(messages[p]) :
                LET id == Uses(messages[p])[i].id
                IN /\ Cardinality(EventsOf("tool_start", id)) = 1
                   /\ Cardinality(EventsOf("tool_complete", id))
                        + Cardinality(EventsOf("tool_error", id)) = 1

(* C7 as amended: every request that names a tool of the catalog has       *)
(* exactly one tool_start, published before the tool is run, and once its  *)
(* callback is over exactly one of tool_complete and tool_error, published *)
(* after the tool_start: tool_complete when the call returned, tool_error  *)
(* when it raised, and none of the two before; a request that names a tool *)
(* outside the catalog has no tool event at all.                           *)

C7_CatalogRequestHasEvents ==
    \A p \in DOMAIN messages :
        IsToolTurn(p) =>
            \A i \in DOMAIN Uses(messages[p]) :
                LET use == Uses(messages[p])[i]
                    starts == EventsOf("tool_start", use.id)
                    completes == EventsOf("tool_complete", use.id)
                    errors == EventsOf("tool_error", use.id)
                    over == p < Len(messages) \/ toolPc[i] = "done"
                IN IF use.name \in Catalog(agentKey)
                   THEN /\ Cardinality(starts) = 1
                        /\ Cardinality(completes) + Cardinality(errors)
                             = IF over THEN 1 ELSE 0
                        /\ \A k \in starts, j \in completes \cup errors : k < j
                        /\ over => /\ use.id \in DOMAIN calls
                                   /\ calls[use.id] = "returned"
                                        <=> completes # {}
                                   /\ calls[use.id] = "raised"
                                        <=> errors # {}
                   ELSE starts \cup completes \cup errors = {}

\* an answered turn in which a catalog tool raised next to an unknown tool
C7_Witness ==
    \E p \in DOMAIN messages :
        /\ IsAnsweredTurn(p)
        /\ \E i, k \in DOMAIN Uses(messages[p]) :
              /\ Uses(messages[p])[i].id \in RaisedIds
              /\ EventsOf("tool_error", Uses(messages[p])[i].id) # {}
              /\ Uses(messages[p])[k].name \notin Catalog(agentKey)

-----------------------------------------------------------------------------
(* C8: against a service that requests a tool on every turn, with every    *)
(* call returning, the loop never calls the service with more than 50      *)
(* messages, never fails, and reaches the completed state, where it has    *)
(* published session_end and returned a success.                           *)

C8_ForcedStop ==
    /\ [](pc = "awaitingModel" => Len(messages) <= MaxMessages)
    /\ [](pc # "failed")
    /\ [](pc = "completed" =>
            /\ result.kind = "returned"
            /\ result.success
            /\ Cardinality(SessionEvents("session_end", sessionId)) = 1)
    /\ (pc = "awaitingModel" ~> pc = "completed")

\* completed by the forced stop, after the turn that took the conversation
\* past the bound
C8_Witness ==
    /\ pc = "completed"
    /\ 2 * Len(serviceCalls) + 1 > MaxMessages
    /\ finalResult = Null
    /\ result.success

-----------------------------------------------------------------------------
(* C9: while a turn is executed every catalog request of the turn has been *)
(* started, each callback can take its next step whatever the state of its *)
(* siblings (also after a sibling raised), and the loop leaves the turn    *)
(* only when no tool call is running and every catalog request of the turn *)
(* has been executed and answered.                                         *)

C9_FanOut ==
    /\ pc = "executing" =>
          \A i \in DOMAIN toolUses :
              /\ FindTool(agentKey, toolUses[i]) =>
                    EventsOf("tool_start", toolUses[i].id) # {}
              /\ toolPc[i] = "emitStart" => ENABLED ToolExecute(i)
              /\ toolPc[i] = "executing" =>
                    ENABLED ToolReturns(i) /\ ENABLED ToolThrows(i)
    /\ pc # "executing" =>
          /\ toolPc = <<>>
          /\ \A id \in DOMAIN calls : calls[id] # "running"
    /\ \A p \in DOMAIN messages :
          IsAnsweredTurn(p) =>
              \A i \in DOMAIN Uses(messages[p]) :
                  LET use == Uses(messages[p])[i]
                  IN /\ FindTool(agentKey, use) => use.id \in DOMAIN calls
                     /\ ResultsFor(messages[p + 1], use.id) # {}

\* two tool calls of one turn are running at once
C9_Witness ==
    /\ pc = "executing"
    /\ \E i, j \in DOMAIN toolPc :
          /\ i < j
          /\ toolPc[i] = "executing"
          /\ toolPc[j] = "executing"

-----------------------------------------------------------------------------
(* C10: when the invocation has completed, the Session Registry holds an   *)
(* entry for its session id whose history is the loop's conversation as    *)
(* trimmed to maxHistory.                                                  *)

C10_RegistryHoldsConversation ==
    pc = "completed" =>
        /\ sessionId \in DOMAIN conversationHistory
        /\ conversationHistory[sessionId].messages = messages
        /\ Len(conversationHistory[sessionId].messages)
             <= conversationHistory[sessionId].maxHistory

-----------------------------------------------------------------------------
(* C11: the first reasoning-service call of an invocation is made with a   *)
(* conversation of exactly one message, the caller message holding input,  *)
(* whatever the Session Registry holds for the session id and whatever     *)
(* earlier invocations and processRequest calls used that id.              *)

-----------------------------------------------------------------------------
(* C12: an invocation with an agent key that is not registered returns at  *)
(* once the failure that names the agent, with an empty toolsUsed; the     *)
(* step publishes no event, calls neither the service nor a tool and       *)
(* leaves the Session Registry and the Metrics Store as they were, and     *)
(* the invocation does nothing afterwards.                                 *)

InvokesUnregistered == pc = "idle" /\ pc' # "idle" /\ agentKey' \notin Agents

C12_NotFoundState ==
    agentKey \notin Agents \cup {"none"} =>
        /\ pc = "notFound"
        /\ result = [kind |-> "returned", success |-> FALSE,
                     error |-> <<"Agent not found", agentKey>>,
                     toolsUsed |-> <<>>]
        /\ serviceCalls = <<>>
        /\ DOMAIN calls = {}
        /\ toolsUsed = <<>>
        /\ messages = <<>>

C12_AgentNotFound ==
    /\ []C12_NotFoundState
    /\ [][InvokesUnregistered =>
            UNCHANGED <<events, serviceCalls, calls, conversationHistory,
                        metrics>>]_vars
    /\ [][(pc = "notFound" /\ pc' = "notFound") =>
            UNCHANGED <<events, serviceCalls, calls, metrics, result>>]_vars

\* the failure was returned on an orchestrator whose registry and store
\* hold entries of earlier calls
C12_Witness ==
    /\ pc = "notFound"
    /\ result = NotFoundReturn("ghost")
    /\ events # <<>>
    /\ DOMAIN metrics.agent_sessions # {}
    /\ DOMAIN conversationHistory # {}

-----------------------------------------------------------------------------
(* C13: toolsUsed holds, in request order and with repetitions, the name   *)
(* of every request of the conversation that names a catalog tool, whether *)
(* its call returned or raised; the value returned, on the success path    *)
(* and on the failure path, is that list, and it has one entry per         *)
(* tool.execute call made.                                                 *)

\* names of the catalog requests of a conversation, in request order
RECURSIVE DispatchedNames(_, _)
DispatchedNames(a, msgs) ==
    IF msgs = <<>> THEN <<>>
    ELSE LET sent == Dispatched(a, Uses(Head(msgs)))
         IN [i \in 1..Len(sent) |-> sent[i].name]
                \o DispatchedNames(a, Tail(msgs))

C13_ToolsUsed ==
    /\ pc # "completed" => toolsUsed = DispatchedNames(agentKey, messages)
    /\ result.kind = "returned" =>
          /\ result.toolsUsed = toolsUsed
          /\ Len(result.toolsUsed) = Cardinality(DOMAIN calls)

C13_ToolsUsedReturned ==
    /\ []C13_ToolsUsed
    /\ [][pc = "finishing" => toolsUsed' = toolsUsed]_vars

\* the failure path after a turn that requested the same tool twice, one
\* call of which raised
C13_Witness ==
    /\ pc = "failed"
    /\ result.toolsUsed = <<"list_files", "list_files">>
    /\ RaisedIds # {}
    /\ \E id \in DOMAIN calls : calls[id] = "returned"

-----------------------------------------------------------------------------
(* C14: when the loop has completed and no tool call raised, there is one  *)
(* tool_complete event for each tool.execute call and none besides, and    *)
(* the session_end event carries totalTools = successCount = the length of *)
(* the returned toolsUsed = the number of calls, and errorCount = 0.       *)

\* the session_end event of a completed invocation
SessionEnd == events[Len(events)]

-----------------------------------------------------------------------------
(* C15: when the loop has completed and a tool call raised, the returned   *)
(* toolsUsed holds the name of that tool and the session_end event carries *)
(* errorCount >= 1.                                                        *)

C15_ErrorCounted ==
    (pc = "completed" /\ RaisedIds # {}) =>
        /\ \A k \in DOMAIN events :
              events[k].type = "tool_error" =>
                  \E j \in DOMAIN result.toolsUsed :
                      result.toolsUsed[j] = events[k].toolName
        /\ SessionEnd.type = "session_end"
        /\ SessionEnd.data.errorCount >= 1

-----------------------------------------------------------------------------
(* C16 as stated: the result of a completed loop is the text of a response *)
(* without tool requests, which is the last message of the conversation.   *)

FinalResponse == messages[Len(messages)]

C16_ResultIsFinalText ==
    pc = "completed" =>
        /\ FinalResponse.role = "assistant"
        /\ Uses(FinalResponse) = <<>>
        /\ result.result = TextValue(TextOf(FinalResponse.content))

(* C16 as amended: a loop completed by a response without tool requests    *)
(* returns the texts of that response, in order and nothing else, and the  *)
(* response is the last message of the conversation; a loop completed by   *)
(* the forced stop at more than 50 messages has no such response: its last *)
(* message is the caller message with the tool results and its result is   *)
(* null.  The step that takes a response with tool requests never sets the *)
(* result.                                                                 *)

C16_CompletedResult ==
    pc = "completed" =>
        /\ result.success
        /\ IF FinalResponse.role = "assistant"
           THEN /\ Uses(FinalResponse) = <<>>
                /\ \A j \in DOMAIN FinalResponse.content :
                      FinalResponse.content[j].type = "text"
                /\ result.result
                     = TextValue([j \in DOMAIN FinalResponse.content |->
                                     FinalResponse.content[j].text])
           ELSE /\ FinalResponse.role = "user"
                /\ 2 * Len(serviceCalls) + 1 > MaxMessages
                /\ result.result = Null

C16_FinalText ==
    /\ []C16_CompletedResult
    /\ [][(pc = "awaitingModel" /\ pc' = "finishing") =>
            /\ messages' = Append(messages, FinalResponse')
            /\ FinalResponse'.role = "assistant"]_vars
    /\ [][pc' = "executing" => finalResult' = finalResult]_vars
    /\ [](pc \in {"awaitingModel", "executing"} => finalResult = Null)

\* completed after a tool turn with commentary by a response of two text
\* blocks
C16_Witness ==
    /\ pc = "completed"
    /\ toolsUsed # <<>>
    /\ result.result = TextValue(<<"an", "swer">>)

-----------------------------------------------------------------------------
(* C18: an emit invokes, with its data, every handler that is registered   *)
(* for the event name and every wildcard handler, once per registration    *)
(* and in order of registration; a handler that throws or whose promise is *)
(* rejected stops no other handler from being invoked, and the promise of  *)
(* emit is never rejected.                                                 *)

C18_EmitIsolatesHandlers ==
    \A k \in DOMAIN emits :
        LET em == emits[k]
        IN /\ em.state # "rejected"
           /\ Len(em.called) <= Len(em.registered)
           /\ em.called = SubSeq(em.registered, 1, Len(em.called))
           /\ \A i \in DOMAIN em.args : em.args[i] = Data(em.event)
           /\ Len(em.outcome) = Len(em.called)
           /\ em.state = "calling" =>
                 /\ Len(em.called) < Len(em.registered)
                 /\ ENABLED HandlerRuns(k, "returned")
           /\ em.state # "calling" => em.called = em.registered

\* the settled emit invoked a named handler that threw and then a wildcard
\* handler whose promise was rejected
C18_Witness ==
    \E k \in DOMAIN emits :
        /\ emits[k].state = "fulfilled"
        /\ emits[k].outcome = <<"threw", "rejected">>
        /\ NamedHandlers(emits[k].event) # <<>>
        /\ wildCardHandlers # <<>>

-----------------------------------------------------------------------------
(* C19: the promise of emit is settled only when every handler registered  *)
(* at the call has been invoked and each of them, the asynchronous ones    *)
(* included, has returned, thrown, or had its promise fulfilled or         *)
(* rejected; the caller that awaits emit takes its next step only then.    *)

AllAttempted(em) ==
    /\ Len(em.outcome) = Len(em.registered)
    /\ \A i \in DOMAIN em.outcome : em.outcome[i] \in Settled

C19_SettledState ==
    \A k \in DOMAIN emits :
        emits[k].state = "fulfilled" => AllAttempted(emits[k])

C19_EmitAwaitsHandlers ==
    /\ []C19_SettledState
    /\ [][Len(emits') < Len(emits) =>
            /\ emits[Len(emits)].state = "fulfilled"
            /\ AllAttempted(emits[Len(emits)])]_vars

\* the emit settled after the promise of a handler was fulfilled
C19_Witness ==
    \E k \in DOMAIN emits :
        /\ emits[k].state = "fulfilled"
        /\ \E i \in DOMAIN emits[k].outcome : emits[k].outcome[i] = "resolved"

-----------------------------------------------------------------------------
(* C20: the handlers an emit invokes are exactly those registered when     *)
(* emit was called: a handler registered later, also by a handler of that  *)
(* emit while it runs, is not invoked for it, and a registration invokes   *)
(* nothing, neither then nor later.                                        *)

C20_CalledAreRegistered ==
    \A k \in DOMAIN emits :
        /\ emits[k].called
             = SubSeq(emits[k].registered, 1, Len(emits[k].called))
        /\ emits[k].state # "calling" =>
              emits[k].called = emits[k].registered

C20_NoReplay ==
    /\ []C20_CalledAreRegistered
    /\ [][(handlers' # handlers \/ wildCardHandlers' # wildCardHandlers) =>
            emits' = emits]_vars

\* a handler of an emit has registered one more handler for the event
\* while the handlers of the emit are being invoked
C20_Witness ==
    \E k \in DOMAIN emits :
        /\ emits[k].state = "calling"
        /\ emits[k].registered # <<>>
        /\ Len(AllHandlers(emits[k].event)) > Len(emits[k].registered)

-----------------------------------------------------------------------------
(* C21: off(event, h) never raises; when h is not registered under event   *)
(* (it never was, the name is unknown, or an earlier off removed it) off   *)
(* changes nothing; otherwise it removes one registration of h under event *)
(* and leaves every other registration, of h elsewhere and of the other    *)
(* handlers, as it was, in order; a handler with no registration left is   *)
(* in the snapshot of no later emit, so no later emit invokes it.          *)

\* the list on and off work on for an event name
ListOf(hs, ws, e) ==
    IF e = "*" THEN ws ELSE IF e \in DOMAIN hs THEN hs[e] ELSE <<>>

Occurrences(list, h) == Cardinality({i \in DOMAIN list : list[i] = h})

Without(list, h) == SelectSeq(list, LAMBDA x : x # h)

RegisteredAnywhere(h) ==
    \E e \in EventNames \cup {"*"} :
        Occurrences(ListOf(handlers, wildCardHandlers, e), h) > 0

C21_OffStep(e, h) ==
    LET before == ListOf(handlers, wildCardHandlers, e)
        after == ListOf(handlers', wildCardHandlers', e)
    IN /\ Occurrences(before, h) = 0 =>
              /\ handlers' = handlers
              /\ wildCardHandlers' = wildCardHandlers
       /\ Occurrences(before, h) > 0 =>
              /\ Occurrences(after, h) = Occurrences(before, h) - 1
              /\ Len(after) = Len(before) - 1
       /\ Without(after, h) = Without(before, h)
       /\ \A n \in (EventNames \cup {"*"}) \ {e} :
              ListOf(handlers', wildCardHandlers', n)
                 = ListOf(handlers, wildCardHandlers, n)
       /\ emits' = emits

C21_NeverRaises ==
    \A e \in EventNames \cup {"*"}, h \in HandlerIds : ENABLED off(e, h)

C21_OffIdempotent ==
    /\ []C21_NeverRaises
    /\ [][\A e \in EventNames \cup {"*"}, h \in HandlerIds :
              off(e, h) => C21_OffStep(e, h)]_vars
    /\ [][\A e \in EventNames, h \in HandlerIds :
              (EmitCall(e) /\ ~RegisteredAnywhere(h)) =>
                  \A i \in DOMAIN emits'[Len(emits')].allHandlers :
                      emits'[Len(emits')].allHandlers[i] # h]_vars

\* a handler that was registered when an emit was called has no
\* registration left while the emit still runs: a handler of the emit has
\* called off for it, and the other handler is still registered
C21_Witness ==
    \E k \in DOMAIN emits, h \in HandlerIds :
        /\ Occurrences(emits[k].registered, h) = 1
        /\ ~RegisteredAnywhere(h)
        /\ \E g \in HandlerIds \ {h} : RegisteredAnywhere(g)

-----------------------------------------------------------------------------
(* C22: the Metrics Store holds at most one session record per session id, *)
(* and the record of an id is written once: no step removes it or changes  *)
(* its agent key or its start time.  A recordSessionStart for an id that   *)
(* has a record changes no row and does not throw.                         *)

\* the step published session_start, so the listener has called
\* recordSessionStart
C22_StartRan ==
    /\ Len(events') = Len(events) + 1
    /\ events'[Len(events')].type = "session_start"

\* agent_sessions maps a session id to its record (session_id is the
\* primary key): the ids that have one are those session_start was
\* published for, however often
C22_OnePerId ==
    DOMAIN metrics.agent_sessions
        = {events[i].sessionId :
              i \in {k \in DOMAIN events : events[k].type = "session_start"}}

C22_StartKept ==
    \A s \in DOMAIN metrics.agent_sessions :
        /\ s \in DOMAIN metrics'.agent_sessions
        /\ metrics'.agent_sessions[s].agent_key
             = metrics.agent_sessions[s].agent_key
        /\ metrics'.agent_sessions[s].started_at
             = metrics.agent_sessions[s].started_at

-----------------------------------------------------------------------------
(* C23: recordSessionEnd for a session id that has no session record does  *)
(* not throw and leaves the store as it is (the update changes no row),    *)
(* and the loop whose session_end is recorded this way returns its success *)
(* result.                                                                 *)

\* the step published session_end for a session id that has no record,
\* with a database that accepts the statement
C23_EndWithoutRecord ==
    /\ Len(events') = Len(events) + 1
    /\ events'[Len(events')].type = "session_end"
    /\ sessionId \notin DOMAIN metrics.agent_sessions
    /\ metrics.accepting

C23_EndIsNoOp ==
    /\ metrics'.agent_sessions = metrics.agent_sessions
    /\ metrics'.tool_executions = metrics.tool_executions
    /\ metrics'.last = [statement |-> "UPDATE agent_sessions",
                        changes |-> 0, outcome |-> "done"]
    /\ pc' = "completed"
    /\ result' = SuccessReturn(finalResult, toolsUsed)

C23_MissingSessionTolerated ==
    [][C23_EndWithoutRecord => C23_EndIsNoOp]_vars

\* the insert of session_start was lost while the database did not accept
\* statements; the loop completed, its update found no record and did not
\* throw, and the loop returned its success result
C23_Witness ==
    /\ pc = "completed"
    /\ result = SuccessReturn(finalResult, toolsUsed)
    /\ sessionId \notin DOMAIN metrics.agent_sessions
    /\ metrics.last = [statement |-> "UPDATE agent_sessions",
                       changes |-> 0, outcome |-> "done"]
    /\ events[Len(events)].type = "session_end"

-----------------------------------------------------------------------------
(* C24: every tool-execution record has a duration that is its completion  *)
(* timestamp minus its start timestamp when it has a completion timestamp, *)
(* and a null duration when it has none; the record has nothing else to    *)
(* take a duration from, the caller hands over the two timestamps only.    *)

C24_DurationDerived ==
    \A i \in DOMAIN metrics.tool_executions :
        LET row == metrics.tool_executions[i]
        IN IF row.completed_at = SqlNull
           THEN row.duration_ms = SqlNull
           ELSE row.duration_ms = <<row.completed_at[1] - row.started_at>>

\* one record of a tool that took a millisecond, and one of a tool whose
\* completion was not handed over
C24_Witness ==
    /\ \E i \in DOMAIN metrics.tool_executions :
          /\ metrics.tool_executions[i].completed_at # SqlNull
          /\ metrics.tool_executions[i].duration_ms = <<1>>
    /\ \E i \in DOMAIN metrics.tool_executions :
          /\ metrics.tool_executions[i].completed_at = SqlNull
          /\ metrics.tool_executions[i].duration_ms = SqlNull

-----------------------------------------------------------------------------
(* C25: tool-execution records are append-only: a record that is in the    *)
(* store is in it, unchanged and at its place, after every step, be it     *)
(* another recordToolExecution, a session start or end, a query, or        *)
(* clearConversation, which removes the Session Registry entry only.       *)

C25_RecordsKept ==
    \A i \in DOMAIN metrics.tool_executions :
        /\ i \in DOMAIN metrics'.tool_executions
        /\ metrics'.tool_executions[i] = metrics.tool_executions[i]

C25_ClearRemovesEntryOnly ==
    ("s1" \in DOMAIN conversationHistory
        /\ "s1" \notin DOMAIN conversationHistory') => metrics' = metrics

C25_AppendOnly ==
    [][C25_RecordsKept /\ C25_ClearRemovesEntryOnly]_vars

\* after a direct call recorded a failed read_file, the loop of session
\* s1 has recorded its list_files and ended, a query has counted both
\* records, and the registry entry a processRequest made for s1 has been
\* cleared
C25_Witness ==
    /\ pc = "completed"
    /\ Len(metrics.tool_executions) = 2
    /\ metrics.tool_executions[1].tool_name = "read_file"
    /\ metrics.tool_executions[1].status = "error"
    /\ metrics.tool_executions[2].tool_name = "list_files"
    /\ metrics.agent_sessions["s1"].completed_at # SqlNull
    /\ query.call = <<"getErrorRate", <<>>>>
    /\ query.got = <<2, 1>>
    /\ requests[1].pc = "done"
    /\ "s1" \notin DOMAIN conversationHistory

-----------------------------------------------------------------------------
(* C26: whenever executeAgentWithTools returns a failure because the call  *)
(* of the reasoning service failed on the first turn, the Metrics Store    *)
(* afterwards holds a session record for that session id with a start time *)
(* and no completion timestamp, provided no session_end was published for  *)
(* that session id before (the record of a re-used id is the one its first *)
(* session_start wrote, completed by whichever invocation ended).          *)

\* the step in which the first messages.create of an invocation throws
C26_FailsOnFirstTurn ==
    /\ pc = "awaitingModel"
    /\ serviceCalls = <<>>
    /\ pc' = "failed"
    /\ result' = FailureReturn("service error", <<>>)

\* the store after the step holds a started, uncompleted record of the id
C26_OpenRecordAfter ==
    /\ sessionId \in DOMAIN metrics'.agent_sessions
    /\ metrics'.agent_sessions[sessionId].started_at \in 1..now
    /\ metrics'.agent_sessions[sessionId].completed_at = SqlNull

C26_NeverEnded ==
    \A i \in DOMAIN events :
        events[i].type = "session_end" => events[i].sessionId # sessionId

\* the claim as stated, for any history of the session id
C26_AnyFailureLeavesOpenRecord ==
    [][C26_FailsOnFirstTurn => C26_OpenRecordAfter]_vars

C26_FirstTurnFailureLeavesOpenRecord ==
    [][(C26_FailsOnFirstTurn /\ C26_NeverEnded) => C26_OpenRecordAfter]_vars

\* an invocation has failed on its first turn, for a session id that an
\* earlier failed invocation used too, and the record is the one the
\* earlier invocation started
C26_Witness ==
    /\ pc = "failed"
    /\ serviceCalls = <<"error">>
    /\ Len(events) = 2
    /\ events[1].type = "session_start"
    /\ events[2].type = "session_start"
    /\ events[1].timestamp < events[2].timestamp
    /\ metrics.agent_sessions[sessionId].started_at = events[1].timestamp
    /\ metrics.agent_sessions[sessionId].completed_at = SqlNull

-----------------------------------------------------------------------------
(* C27: with analytics enabled and a store that accepts every statement,   *)
(* the tool-execution records are, one for one and in order, the           *)
(* tool_complete and tool_error events published so far: status success or *)
(* error, the event's session id, agent key and tool name, and a duration  *)
(* equal to the event's.  This holds in every state, so also when          *)
(* executeAgentWithTools returns; by then the record of the session id     *)
(* holds the start of the session and, after a completed loop, the         *)
(* completion time and counts of its session_end.                          *)

C27_ToolEnded(e) == e.type \in {"tool_complete", "tool_error"}

C27_Recorded(row, e) ==
    /\ row.status = (IF e.type = "tool_complete" THEN "success" ELSE "error")
    /\ row.session_id = e.sessionId
    /\ row.agent_key = e.agentKey
    /\ row.tool_name = e.toolName
    /\ row.duration_ms = <<e.duration>>
    /\ row.completed_at = <<e.timestamp>>

C27_FirstStart(s) ==
    events[CHOOSE i \in DOMAIN events :
              /\ events[i].type = "session_start"
              /\ events[i].sessionId = s
              /\ \A j \in 1..(i - 1) :
                    ~(events[j].type = "session_start"
                      /\ events[j].sessionId = s)]

C27_ToolRecordsFollowEvents ==
    LET ended == SelectSeq(events, C27_ToolEnded)
    IN /\ Len(metrics.tool_executions) = Len(ended)
       /\ \A k \in DOMAIN ended :
             C27_Recorded(metrics.tool_executions[k], ended[k])

C27_SessionDataAtReturn ==
    pc \in {"completed", "failed"} =>
        /\ sessionId \in DOMAIN metrics.agent_sessions
        /\ LET row == metrics.agent_sessions[sessionId]
               end == events[Len(events)]
           IN /\ row.started_at = C27_FirstStart(sessionId).timestamp
              /\ row.agent_key = C27_FirstStart(sessionId).agentKey
              /\ pc = "completed" =>
                    /\ end.type = "session_end"
                    /\ end.sessionId = sessionId
                    /\ row.completed_at = <<end.timestamp>>
                    /\ row.total_tools = end.data.totalTools
                    /\ row.success_count = end.data.successCount
                    /\ row.error_count = end.data.errorCount

-----------------------------------------------------------------------------
(* C28: a metrics query that reads the store in several statements         *)
(* (getToolMetrics, getAgentMetrics, getErrorRate) runs all of them in the *)
(* step of its call, so no write of the Analytics Listener falls between   *)
(* them: what it read is what one store state answers, its success count   *)
(* plus its error count never exceeds its totalExecutions, and the step    *)
(* leaves the store unchanged.                                             *)

C28_QueryStep == query' # query

C28_ReadFromOneState ==
    /\ query'.got \in RunStatements(metrics, query'.call, <<>>,
                                    Len(Statements(query'.call)))
    /\ metrics' = metrics

C28_Consistent ==
    /\ Len(query.got) = Len(Statements(query.call))
    /\ query.call[1] = "getToolMetrics" =>
          LET value == Returned(query.call, query.got)
          IN /\ value.successRate[2] \in {1, value.totalExecutions}
             /\ value.successRate[1]
                  + 100 * value.errorCount <= 100 * value.totalExecutions
    /\ query.call[1] = "getAgentMetrics" =>
          LET value == Returned(query.call, query.got)
          IN value.successRate[1] <= 100 * value.totalExecutions
    /\ query.call[1] = "getErrorRate" =>
          LET value == Returned(query.call, query.got)
          IN value[1] <= 100 * value[2]

C28_QueryAtomic ==
    /\ []C28_Consistent
    /\ [][C28_QueryStep => C28_ReadFromOneState]_vars

\* getToolMetrics was called between the tool_start and the tool_error of
\* a running loop and again after the tool_error: the value held is the
\* one of the store with the error record
C28_Witness ==
    /\ query.call = <<"getToolMetrics", <<>>>>
    /\ Returned(query.call, query.got).totalExecutions = 1
    /\ Returned(query.call, query.got).errorCount = 1
    /\ Returned(query.call, query.got).successRate = <<0, 1>>
    /\ pc = "executing"

-----------------------------------------------------------------------------
(* C29: getTopTools(limit) returns one entry per distinct tool name,       *)
(* ordered by invocation count non-increasing, where each entry's count is *)
(* the number of tool-execution records with that name and its successRate *)
(* is 100 times its success records divided by its count; no tool left out *)
(* has more records than a tool included.  With limit >= 0 it returns at   *)
(* most limit entries; with a negative limit it leaves no tool out.        *)

C29_TopToolsStep == query' # query /\ query'.call[1] = "getTopTools"

\* the value returned in the step, against the store it was read from
C29_Ranked ==
    LET value == Returned(query'.call, query'.got)
        rows == metrics.tool_executions
        Named(name) == {i \in DOMAIN rows : rows[i].tool_name = name}
        included == {value[i].name : i \in DOMAIN value}
    IN /\ \A i, j \in DOMAIN value : i # j => value[i].name # value[j].name
       /\ \A i, j \in DOMAIN value : i < j => value[i].count >= value[j].count
       /\ \A i \in DOMAIN value :
             /\ Named(value[i].name) # {}
             /\ value[i].count = Cardinality(Named(value[i].name))
             /\ value[i].successRate =
                  <<100 * Cardinality({k \in Named(value[i].name) :
                                          rows[k].status = "success"}),
                    value[i].count>>
       /\ \A k \in DOMAIN rows :
             rows[k].tool_name \notin included =>
                \A i \in DOMAIN value :
                    Cardinality(Named(rows[k].tool_name)) <= value[i].count

C29_AtMostLimit ==
    Len(Returned(query'.call, query'.got)) <= query'.call[2]

C29_AllWhenNegative ==
    Len(Returned(query'.call, query'.got))
        = Cardinality({metrics.tool_executions[i].tool_name :
                          i \in DOMAIN metrics.tool_executions})

\* the claim as stated, for every limit
C29_TopToolsAnyLimit ==
    [][C29_TopToolsStep => (C29_Ranked /\ C29_AtMostLimit)]_vars

C29_TopTools ==
    [][C29_TopToolsStep =>
          /\ C29_Ranked
          /\ query'.call[2] >= 0 => C29_AtMostLimit
          /\ query'.call[2] < 0 => C29_AllWhenNegative]_vars

\* getTopTools(1) has returned the one tool with two records, one of them a
\* success, and left out a tool with one record
C29_Witness ==
    /\ query.call = <<"getTopTools", 1>>
    /\ Len(metrics.tool_executions) = 3
    /\ Cardinality({metrics.tool_executions[i].tool_name :
                       i \in DOMAIN metrics.tool_executions}) = 2
    /\ Len(Returned(query.call, query.got)) = 1
    /\ Returned(query.call, query.got)[1].count = 2
    /\ Returned(query.call, query.got)[1].successRate = <<100, 2>>

-----------------------------------------------------------------------------
(* C30: clearConversation(sessionId) leaves no entry for that id and every *)
(* other session's entry untouched, and called again right away it changes *)
(* nothing; the next lookup of that id creates an entry with an empty      *)
(* history and maxHistory 20 (processRequest pushes its user message on it *)
(* in the same step), while a lookup of an id that has an entry returns    *)
(* that entry with its history intact.                                     *)

C30_ClearLeavesEntry(s) ==
    clearConversation(s) /\ s \in DOMAIN conversationHistory'

C30_ClearOfAbsentChanges(s) ==
    clearConversation(s) /\ vars' # vars

C30_ClearTouchesOthers(s) ==
    /\ clearConversation(s)
    /\ \E k \in DOMAIN conversationHistory \ {s} :
          \/ k \notin DOMAIN conversationHistory'
          \/ conversationHistory'[k] # conversationHistory[k]

\* a clear of s removes the entry of s and no other; a clear of an id that
\* has no entry, as the second of two clears in succession is, changes
\* nothing
C30_ClearIdempotent ==
    \A s \in SessionIds :
        /\ ~ENABLED C30_ClearLeavesEntry(s)
        /\ ~ENABLED C30_ClearTouchesOthers(s)
        /\ s \notin DOMAIN conversationHistory =>
              ~ENABLED C30_ClearOfAbsentChanges(s)

\* the step in which processRequest r looks sessionId s up
C30_Lookup(r, s) ==
    /\ requests[r].pc = "new"
    /\ requests'[r].pc = "awaiting"
    /\ requests'[r].sessionId = s

C30_LookupStep ==
    \A r \in 1..MaxRequests, s \in SessionIds :
        C30_Lookup(r, s) =>
            /\ s \in DOMAIN conversationHistory'
            /\ conversationHistory'[s].maxHistory = 20
            /\ conversationHistory'[s].messages =
                  Append(IF s \in DOMAIN conversationHistory
                         THEN conversationHistory[s].messages
                         ELSE <<>>,
                         Message("user", <<TextBlock(Input)>>))
            /\ \A k \in DOMAIN conversationHistory \ {s} :
                  /\ k \in DOMAIN conversationHistory'
                  /\ conversationHistory'[k] = conversationHistory[k]

C30_ClearAndLookup ==
    /\ []C30_ClearIdempotent
    /\ [][C30_LookupStep]_vars

\* session s1 was cleared while session s2 kept its two messages, and a
\* processRequest has looked s1 up again: its entry holds the new user
\* message only
C30_Witness ==
    /\ DOMAIN conversationHistory = {"s1", "s2"}
    /\ Len(conversationHistory["s2"].messages) = 2
    /\ requests[1].pc = "awaiting"
    /\ requests[1].sessionId = "s1"
    /\ requests[1].attached
    /\ conversationHistory["s1"] =
         [messages |-> <<Message("user", <<TextBlock(Input)>>)>>,
          maxHistory |-> 20]

-----------------------------------------------------------------------------
(* C31: after any mutation of a Session Registry entry, the entry's        *)
(* message count is at most its maxHistory.                                *)

C31_TrimInvariant ==
    \A s \in DOMAIN conversationHistory :
        Len(conversationHistory[s].messages)
            <= conversationHistory[s].maxHistory

-----------------------------------------------------------------------------
(* C32: trimConversationHistory on a history of n messages leaves exactly  *)
(* the last min(n, maxHistory) messages in their original order: only the  *)
(* oldest are discarded, a history within the bound is left unchanged.     *)
(* Stated of the step in which processRequest pushes its assistant message *)
(* and trims.                                                              *)

\* processRequest r, still holding the registry's entry, has got its final
\* response
C32_TrimStep(r) ==
    /\ requests[r].pc = "awaiting"
    /\ requests[r].attached
    /\ requests'[r].pc = "done"
    /\ conversationHistory' # conversationHistory

C32_NewestKept(r) ==
    LET s == requests[r].sessionId
        pushed == Append(conversationHistory[s].messages,
                         Message("assistant", <<TextBlock("reply")>>))
        n == Len(pushed)
        bound == conversationHistory[s].maxHistory
        kept == IF n < bound THEN n ELSE bound
        after == conversationHistory'[s].messages
    IN /\ Len(after) = kept
       /\ \A i \in 1..kept : after[i] = pushed[n - kept + i]
       /\ n <= bound => after = pushed
       /\ conversationHistory'[s].maxHistory = bound

C32_TrimKeepsNewest ==
    [][\A r \in 1..MaxRequests : C32_TrimStep(r) => C32_NewestKept(r)]_vars

\* a processRequest of the full session has returned: its entry holds
\* twenty messages again, the oldest of them the second input, the newest
\* the response just pushed
C32_Witness ==
    /\ requests[1].pc = "done"
    /\ Len(conversationHistory["s1"].messages) = 20
    /\ conversationHistory["s1"].messages[1]
         = Message("user", <<TextBlock("q2")>>)
    /\ conversationHistory["s1"].messages[19]
         = Message("user", <<TextBlock(Input)>>)
    /\ conversationHistory["s1"].messages[20]
         = Message("assistant", <<TextBlock("reply")>>)

-----------------------------------------------------------------------------
(* C33: no two requests to one domain are admitted within the same 1000 ms,  *)
(* and a request made less than 1000 ms after the last admitted request to  *)
(* the same domain is answered with the rate-limit error and runs no tool.  *)
(* The limiter is keyed by params.url, the whole URL, so that two pages of  *)
(* one domain are both admitted in the same millisecond.                    *)
C33_Domain(url) ==
    IF url \in {"https://a.com/x", "https://a.com/y"} THEN "a.com"
    ELSE IF url = "https://b.org/" THEN "b.org" ELSE "general"

C33_OnePerSecondPerDomain ==
    \A i, j \in 1..Len(web.responses) :
        LET first == web.responses[i]
            second == web.responses[j]
        IN (/\ i < j
            /\ first.ran
            /\ C33_Domain(first.url) = C33_Domain(second.url)
            /\ second.at - first.at < 1000)
           => /\ ~second.ran
              /\ second.response.toolsUsed = <<>>
              /\ second.response.error =
                     "Rate limit exceeded. Please wait before making more requests."

\* the same for two requests of one URL: this is what the limiter does
C33_OnePerSecondPerUrl ==
    \A i, j \in 1..Len(web.responses) :
        LET first == web.responses[i]
            second == web.responses[j]
        IN (/\ i < j
            /\ first.ran
            /\ first.url = second.url
            /\ second.at - first.at < 1000)
           => /\ ~second.ran
              /\ second.response.toolsUsed = <<>>

-----------------------------------------------------------------------------
(* C34: in every executeAgentWithTools invocation, whatever the service    *)
(* answers, the loop's conversation never holds more than 51 messages and  *)
(* the service is called at most 25 times: the conversation starts with    *)
(* one message, a tool turn adds two and a text turn one, and the loop     *)
(* stops after the turn that takes it past 50.                             *)

C34_LoopBounded ==
    /\ Len(messages) <= MaxMessages + 1
    /\ Len(serviceCalls) <= MaxMessages \div 2

\* the 25th call was answered with a tool request, and the loop has stopped
C34_Witness ==
    /\ pc = "finishing"
    /\ Len(messages) = MaxMessages + 1
    /\ Len(serviceCalls) = MaxMessages \div 2
    /\ serviceCalls[Len(serviceCalls)] = "ok"

-----------------------------------------------------------------------------
(* C35 as stated: whenever the execute of a catalog tool has returned,     *)
(* whatever it returned, the tool_result of the request is not an error    *)
(* result, and tool_complete and no tool_error is published for it.        *)

C35_ReturnIsSuccess ==
    \A p \in DOMAIN messages :
        IsToolTurn(p) =>
            \A i \in DOMAIN Uses(messages[p]) :
                LET use == Uses(messages[p])[i]
                    over == p < Len(messages) \/ toolPc[i] = "done"
                IN (/\ over
                    /\ use.id \in DOMAIN calls
                    /\ calls[use.id] = "returned")
                   => /\ EventsOf("tool_complete", use.id) # {}
                      /\ EventsOf("tool_error", use.id) = {}
                      /\ \A b \in AllResults :
                            b.tool_use_id = use.id => ~b.is_error

-----------------------------------------------------------------------------
(* C36: the record of a session id holds the start time and the agent key  *)
(* of the first session_start published for the id, whatever loops were    *)
(* run with the id afterwards, and the completion time, the counts and the *)
(* final result of the last session_end published for it, that is of the   *)
(* most recent run that completed: a run that fails publishes no           *)
(* session_end and leaves them as they are.  Until a run completes they    *)
(* are empty.                                                              *)

-----------------------------------------------------------------------------
(* C37 as stated: a handler registered with once(event, h) is invoked at   *)
(* most one time over any sequence of emits of the event, also when a      *)
(* handler that an emit has called emits the event itself.                 *)

\* the calls of the wrapper that once made for h, each of which calls h
C37_Invocations(h) ==
    {c \in (DOMAIN emits) \X (1..MaxHandlers) :
        /\ c[2] \in DOMAIN emits[c[1]].called
        /\ emits[c[1]].called[c[2]] = onceHandler(h)}

C37_OnceAtMostOnce ==
    \A h \in HandlerIds : Cardinality(C37_Invocations(h)) <= 1

\* the same while no handler calls emit: every emit was called with no map
\* running
C37_NoNestedEmit == \A k \in DOMAIN emits : emits[k].inside = 0

C37_OnceAtMostOnceUnnested ==
    C37_NoNestedEmit => C37_OnceAtMostOnce

-----------------------------------------------------------------------------
(* C38: executeStep runs a step only when every step it depends on has     *)
(* status 'completed': whenever a call starts to run a step, the steps it  *)
(* depends on are completed; and an execute_plan call for a step with a    *)
(* dependency that is not completed returns 'blocked' and leaves every     *)
(* plan as it is, the status of each step and of the plan included.        *)

\* in this step call c has started to run step stepId of its plan
C38_Starts(c, stepId) ==
    /\ c \in DOMAIN planner'.calls
    /\ planner'.calls[c].pc = "delegating"
    /\ Head(planner'.calls[c].order) = stepId
    /\ \/ c \notin DOMAIN planner.calls
       \/ planner.calls[c].order # planner'.calls[c].order

\* every step that step stepId of plan depends on is completed
C38_Ready(plan, stepId) ==
    \A j \in DOMAIN plan.steps[stepId].dependencies :
        plan.steps[plan.steps[stepId].dependencies[j]].status = "completed"

\* in this step execute_plan was called for step stepId of plan p
C38_StepCalled(p, stepId) ==
    /\ Len(planner'.calls) = Len(planner.calls) + 1
    /\ planner'.calls[Len(planner'.calls)].planId = p
    /\ planner'.calls[Len(planner'.calls)].stepId = stepId

C38_BlockedUnlessReady ==
    /\ [][\A c \in 1..MaxPlanCalls, stepId \in 1..4 :
            C38_Starts(c, stepId) =>
                C38_Ready(planner'.executionPlans[planner'.calls[c].planId],
                          stepId)]_vars
    /\ [][\A p \in PlanIds, stepId \in 1..4 :
            (/\ C38_StepCalled(p, stepId)
             /\ ~C38_Ready(planner.executionPlans[p], stepId))
            => /\ planner'.calls[Len(planner'.calls)].results = <<"blocked">>
               /\ planner'.calls[Len(planner'.calls)].pc = "returned"
               /\ planner'.executionPlans = planner.executionPlans]_vars

\* execute_plan for step 2 has returned blocked while step 1 was running,
\* and the plan is as the call for step 1 left it
C38_Witness ==
    /\ Len(planner.calls) = 2
    /\ planner.calls[1].stepId = 1
    /\ planner.calls[1].pc = "delegating"
    /\ planner.calls[2].stepId = 2
    /\ planner.calls[2].results = <<"blocked">>
    /\ planner.executionPlans["p1"].steps[1].status = "in_progress"
    /\ planner.executionPlans["p1"].steps[2].status = "pending"
    /\ planner.executionPlans["p1"].status = "in_progress"

-----------------------------------------------------------------------------
(* C39 as stated: 'completed' is a terminal step status: whatever          *)
(* execute_plan calls follow, a step that is completed stays completed (it *)
(* is not run again and does not return to 'in_progress' or 'failed').     *)

C39_CompletedIsTerminal ==
    [][\A p \in DOMAIN planner.executionPlans :
          \A i \in DOMAIN planner.executionPlans[p].steps :
              planner.executionPlans[p].steps[i].status = "completed"
              => planner'.executionPlans[p].steps[i].status = "completed"]_vars

-----------------------------------------------------------------------------
(* C17: with two invocations for different session ids interleaved on one  *)
(* orchestrator, each invocation has what it has when it runs alone: the   *)
(* events that carry its session id are, in order, its session_start, the  *)
(* tool_start of each of its dispatches in the order of its toolsUsed, one *)
(* tool_complete or tool_error for each of its calls that is over, and its *)
(* session_end once it has completed, with its own counts and result; its  *)
(* return value is made of its own toolsUsed and result; the tool records  *)
(* with its session id are those of its own tool_complete and tool_error   *)
(* events, in order, and its session record is the one its own             *)
(* session_start and session_end write.                                    *)

OwnEvents(s) == SelectSeq(events, LAMBDA e : e.sessionId = s)

OwnToolRecords(s) ==
    SelectSeq(metrics.tool_executions, LAMBDA r : r.session_id = s)

Outcomes(log) ==
    SelectSeq(log, LAMBDA e : e.type \in {"tool_complete", "tool_error"})

\* what the listeners write for a tool_complete or tool_error event
ToolRecordOf(e) ==
    setupAnalyticsListeners(NoMetrics, e).tool_executions[1]

\* the session record of an invocation that ran with nothing else going on
SoloSessionRecord(L) ==
    LET started == recordSessionStart(NoMetrics, L.sessionId, L.agentKey)
        ended == recordSessionEnd(started, L.sessionId,
                     SessionEndEvent(L.sessionId, L.agentKey, L.toolsUsed,
                                     L.finalResult).data)
    IN IF L.pc = "completed" THEN ended.agent_sessions[L.sessionId]
       ELSE started.agent_sessions[L.sessionId]

RunsAsAlone(L) ==
    LET own == OwnEvents(L.sessionId)
        starts == SelectSeq(own, LAMBDA e : e.type = "tool_start")
        over == {id \in DOMAIN L.calls : L.calls[id] # "running"}
    IN IF L.pc \in {"idle", "notFound", "rejected"}
       THEN /\ own = <<>>
            /\ OwnToolRecords(L.sessionId) = <<>>
            /\ L.sessionId \notin DOMAIN metrics.agent_sessions
       ELSE /\ own[1] = SessionStartEvent(L.sessionId, L.agentKey)
            /\ \A k \in DOMAIN own : own[k].agentKey = L.agentKey
            /\ [i \in DOMAIN starts |-> starts[i].toolName] = L.toolsUsed
            /\ Len(Outcomes(own)) = Cardinality(over)
            /\ \A id \in over :
                  \E k \in DOMAIN own :
                      /\ own[k].type = IF L.calls[id] = "returned"
                                       THEN "tool_complete" ELSE "tool_error"
                      /\ own[k].toolUseId = id
            /\ Len(own) = 1 + Len(starts) + Cardinality(over)
                            + IF L.pc = "completed" THEN 1 ELSE 0
            /\ L.pc = "completed" =>
                  /\ own[Len(own)] = SessionEndEvent(L.sessionId, L.agentKey,
                                                     L.toolsUsed, L.finalResult)
                  /\ L.result = SuccessReturn(L.finalResult, L.toolsUsed)
            /\ L.pc = "failed" =>
                  L.result = FailureReturn("service error", L.toolsUsed)
            /\ OwnToolRecords(L.sessionId)
                 = [i \in DOMAIN Outcomes(own) |->
                       ToolRecordOf(Outcomes(own)[i])]
            /\ L.sessionId \in DOMAIN metrics.agent_sessions
            /\ metrics.agent_sessions[L.sessionId] = SoloSessionRecord(L)

C17_SessionsIndependent ==
    /\ RunsAsAlone(Locals)
    /\ RunsAsAlone(parked)
    /\ Len(metrics.tool_executions)
         = Len(OwnToolRecords(sessionId)) + Len(OwnToolRecords(parked.sessionId))
    /\ Len(events)
         = Len(OwnEvents(sessionId)) + Len(OwnEvents(parked.sessionId))

\* both invocations have completed, one after a call that raised and one
\* after a call that returned, and their events were published interleaved
C17_Witness ==
    /\ pc = "completed"
    /\ parked.pc = "completed"
    /\ RaisedIds # {}
    /\ \E id \in DOMAIN parked.calls : parked.calls[id] = "returned"
    /\ \E i, j, k \in DOMAIN events :
          /\ i < j /\ j < k
          /\ events[i].sessionId = sessionId
          /\ events[j].sessionId = parked.sessionId
          /\ events[k].sessionId = sessionId

====
